---- MODULE Spec2Model ----
(***************************************************************************)
(* Partition state of the stochastic block model engine                    *)
(* (src/src/graph/inference/graph_blockmodel.hh, class BlockState).        *)
(*                                                                         *)
(* The state is the vertex->block map b, the per-block weights wr, the     *)
(* block-pair edge counts mrs with their index emat, the per-block degree  *)
(* sums mrp / mrm, the two block pools, the label map bclabel and the      *)
(* partition-node part of an optional coupled (parent level) state.        *)
(* Every operation is first written as an operator from a state record to  *)
(* a state record, following the C++ statement by statement, and then      *)
(* wrapped into an action.                                                 *)
(***************************************************************************)
EXTENDS Integers, Sequences, FiniteSets, TLC

\* ------------------------------------------------------------------ bounds
NumV == 2          \* vertices of the input graph g
NumB == 2          \* vertices of the block graph bg
MaxBatch == 2      \* longest array handed to a bulk operation
MaxCoupled == 2    \* largest block weight of the coupled state that is explored
MaxQueries == 1    \* longest run of read-only calls between two mutations
NumBins == 2       \* M: bins of the multicanonical histogram
BinWidth == 2      \* entropy units in one bin
MaxIter == 2       \* largest _niter of a sweep
MaxFrames == 3     \* activation records the stack has room for

V == 0 .. (NumV - 1)
Blocks == 0 .. (NumB - 1)
Labels == {0, 1}

\* the vertices of g, the blocks of bg and the block pairs of a state
VS(S) == DOMAIN S.vweight
BS(S) == DOMAIN S.wr
PairsOf(S) == BS(S) \X BS(S)

\* the "no block" sentinel (size_t(-1) in the C++)
null_group == -1

VARIABLES
    directed,          \* is_directed::apply<g_t>: fixed at construction
    is_weighted,       \* template parameter is_weighted
    coupled,           \* _coupled_state != nullptr
    edges,             \* the graph g: sequence of [s, t, w] (w = _eweight[e])
    vweight,           \* _vweight
    b,                 \* _b
    wr,                \* _wr
    mrs,               \* _mrs, read through emat
    emat,              \* _emat: the block pairs that have an edge in bg
    mrp,               \* _mrp
    mrm,               \* _mrm (the same storage as _mrp when g is undirected)
    empty_blocks,      \* _empty_blocks
    empty_pos,         \* _empty_pos
    candidate_blocks,  \* _candidate_blocks
    candidate_pos,     \* _candidate_pos
    bclabel,           \* _bclabel
    merge_map,         \* _merge_map
    cstate,            \* partition-node part of *_coupled_state
    fault,             \* an assert of the C++ failed or a null block edge was written
    in_part,           \* vertices currently added to the partition (caller's bookkeeping)
    err,               \* exception raised by the last call ("none" if it returned)
    last,              \* the last call: [op, v, r, nr, nv, nb]
    rt,                \* the last move and the state before it (history)
    deg_corr,          \* _deg_corr: fixed at construction
    pstats,            \* !_partition_stats.empty() (is_partition_stats_enabled)
    ret,               \* what the last read-only call returned
    queries,           \* read-only calls since the last mutation
    mc,                \* the MulticanonicalState and the locals of its sweep
    rec_types,         \* _rec_types: fixed at construction
    brec,              \* _brec, read through emat: one sum per covariate
    ignore_degrees,    \* _ignore_degrees: fixed at construction
    brecsum,           \* _brecsum
    par                \* a run of label_parallel_edges / label_self_loops on g

vars == <<directed, is_weighted, coupled, edges, vweight, b, wr, mrs, emat, mrp,
          mrm, empty_blocks, empty_pos, candidate_blocks, candidate_pos, bclabel,
          merge_map, cstate, fault, in_part, err, last, rt, deg_corr, pstats, ret,
          queries, mc, rec_types, brec, ignore_degrees, brecsum, par>>

\* ----------------------------------------------------------------- helpers
RECURSIVE SumSeq(_)
SumSeq(q) == IF q = <<>> THEN 0 ELSE Head(q) + SumSeq(Tail(q))

\* the sum of f over the integers lo .. hi
RECURSIVE SumIdx(_, _, _)
SumIdx(f, lo, hi) == IF lo > hi THEN 0 ELSE f[lo] + SumIdx(f, lo + 1, hi)

\* the sum of a function f whose domain is 0 .. n-1
SumFun(f) == SumIdx(f, 0, Cardinality(DOMAIN f) - 1)

\* x, evaluated once (a function built by an operator is otherwise
\* re-evaluated at every application)
Eval(x) == IF x = x THEN x ELSE x

Range(q) == {q[i] : i \in 1 .. Len(q)}

\* the entropy configuration of a call that takes none
NoArgs == [adjacency |-> FALSE, dense |-> FALSE, exact |-> FALSE,
           multigraph |-> FALSE, partition_dl |-> FALSE, degree_dl |-> FALSE,
           edges_dl |-> FALSE]

\* what sample_block did when it was not called: [c |-> its parameter c,
\* rand |-> the block of its uniform draw, local |-> it sampled a neighbour
\* and an edge of the neighbour's block, e |-> that edge, s |-> the block
\* it returned]
NoSample == [c |-> 0, rand |-> null_group, local |-> FALSE, e |-> 0,
             s |-> null_group]

\* the value of a call that returns none or throws: [ea |-> the configuration
\* of the call, inf |-> it returned +infinity, sum |-> the sum of terms it
\* returned, sample |-> the block sample_block returned and how]; and of a
\* call that is executed step by step: [call |-> where it stands, build |->
\* how its recursion was compiled, frames |-> its activation records on the
\* stack, jumps |-> the parity of the jumps it took]
NoRet == [ea |-> NoArgs, inf |-> FALSE, sum |-> <<>>, sample |-> NoSample,
          call |-> "none", build |-> "none", frames |-> 0, jumps |-> 0]

\* the state record the operations work on
St == [edges |-> edges, vweight |-> vweight, b |-> b, wr |-> wr, mrs |-> mrs,
       emat |-> emat, mrp |-> mrp, mrm |-> mrm,
       empty_blocks |-> empty_blocks, empty_pos |-> empty_pos,
       candidate_blocks |-> candidate_blocks, candidate_pos |-> candidate_pos,
       bclabel |-> bclabel, merge_map |-> merge_map, cstate |-> cstate,
       fault |-> fault, err |-> "none", pstats |-> pstats, ret |-> NoRet,
       queries |-> 0, rec_types |-> rec_types, brec |-> brec,
       ignore_degrees |-> ignore_degrees, brecsum |-> brecsum]

Commit(S) ==
    /\ edges' = S.edges
    /\ vweight' = S.vweight
    /\ b' = S.b
    /\ wr' = S.wr
    /\ mrs' = S.mrs
    /\ emat' = S.emat
    /\ mrp' = S.mrp
    /\ mrm' = S.mrm
    /\ empty_blocks' = S.empty_blocks
    /\ empty_pos' = S.empty_pos
    /\ candidate_blocks' = S.candidate_blocks
    /\ candidate_pos' = S.candidate_pos
    /\ bclabel' = S.bclabel
    /\ merge_map' = S.merge_map
    /\ cstate' = S.cstate
    /\ fault' = S.fault
    /\ err' = S.err
    /\ pstats' = S.pstats
    /\ ret' = S.ret
    /\ brec' = S.brec
    /\ brecsum' = S.brecsum
    /\ queries' = S.queries
    /\ UNCHANGED <<directed, is_weighted, coupled, deg_corr, mc, rec_types,
                   ignore_degrees, par>>

\* -------------------------------------------------------- graph collaborator
\* out_edges_range(v, g): for an undirected graph every incident edge, a
\* self-loop listed twice
RECURSIVE out_edges_range(_, _, _)
out_edges_range(E, v, i) ==
    IF i > Len(E) THEN <<>>
    ELSE LET e == E[i]
             fwd == IF e.s = v THEN <<[e |-> i, u |-> e.t]>> ELSE <<>>
             bwd == IF ~directed /\ e.t = v THEN <<[e |-> i, u |-> e.s]>> ELSE <<>>
         IN  fwd \o bwd \o out_edges_range(E, v, i + 1)

\* in_edges_range(v, g): empty for an undirected graph
RECURSIVE in_edges_range(_, _, _)
in_edges_range(E, v, i) ==
    IF i > Len(E) THEN <<>>
    ELSE LET e == E[i]
             bwd == IF directed /\ e.t = v THEN <<[e |-> i, u |-> e.s]>> ELSE <<>>
         IN  bwd \o in_edges_range(E, v, i + 1)

\* all_edges_range(v, g)
all_edges_range(E, v) == out_edges_range(E, v, 1) \o in_edges_range(E, v, 1)

\* out_degreeS()(v, g, eweight)
out_degreeS(E, v) ==
    LET q == out_edges_range(E, v, 1)
    IN  SumSeq([i \in 1 .. Len(q) |-> E[q[i].e].w])

\* ------------------------------------------------------- Block Edge Index
\* the key under which the pair (r, s) is stored: ordered for a directed
\* graph, unordered for an undirected one
Key(r, s) == IF directed \/ r <= s THEN <<r, s>> ELSE <<s, r>>

\* _emat.get_me(r, s) != _emat.get_null_edge()
has_me(S, r, s) == Key(r, s) \in S.emat

\* get_beprop(r, s, _mrs, _emat)
get_beprop(S, r, s) == IF has_me(S, r, s) THEN S.mrs[Key(r, s)] ELSE 0

\* ------------------------------------------------------------- block pools
\* add_element(vec, pos, val)
add_element(vec, pos, val) ==
    [vec |-> Append(vec, val), pos |-> [pos EXCEPT ![val] = Len(vec)]]

\* remove_element(vec, pos, val): swap with the back and pop (positions are
\* zero-based in the C++, the sequence is one-based)
remove_element(vec, pos, val) ==
    LET back == vec[Len(vec)]
        i == pos[val]
        vec1 == [vec EXCEPT ![i + 1] = back]
        pos1 == IF back \in DOMAIN pos THEN [pos EXCEPT ![back] = i] ELSE pos
    IN  [vec |-> SubSeq(vec1, 1, Len(vec1) - 1), pos |-> pos1]

\* ------------------------------------------------- Move-Entries Delta Set
\* modify_entries<Add>(v, r, ...): the entries [k |-> block pair, d |-> signed
\* weight] inserted when v is taken out of (Add = FALSE) or put into
\* (Add = TRUE) block r, one per incident edge: outs are the out-edges and
\* ins the in-edges of v that efilt lets through.  A neighbour u counts in
\* block b[u], v itself in r; an undirected self-loop, listed twice among
\* outs, is counted once by the entry that takes half of self_weight back.
entries_of(Add, S, v, r, outs, ins, self_weight) ==
    LET E == S.edges
        sgn == IF Add THEN 1 ELSE -1
        blk(u) == IF u = v THEN r ELSE S.b[u]
    IN  [i \in 1 .. Len(outs) |->
            [k |-> Key(r, blk(outs[i].u)), d |-> sgn * E[outs[i].e].w]]
        \o (IF self_weight > 0 /\ self_weight % 2 = 0
            THEN <<[k |-> <<r, r>>, d |-> (0 - sgn) * (self_weight \div 2)]>>
            ELSE <<>>)
        \o [i \in 1 .. Len(ins) |->
            [k |-> Key(blk(ins[i].u), r), d |-> sgn * E[ins[i].e].w]]

\* the weight of the self-loops among the incident edges outs of v
self_loops(E, v, outs) ==
    IF directed THEN 0
    ELSE SumSeq([i \in 1 .. Len(outs) |->
                    IF outs[i].u = v THEN E[outs[i].e].w ELSE 0])

\* the edges of q that efilt lets through
unfiltered(q, efilt) == SelectSeq(q, LAMBDA x : x.e \notin efilt)

\* modify_entries, given the out-edges of v that efilt lets through; the
\* in-edge loop skips the self-loops
modify_entries_of(Add, S, v, r, efilt, outs) ==
    entries_of(Add, S, v, r, outs,
               SelectSeq(unfiltered(in_edges_range(S.edges, v, 1), efilt),
                         LAMBDA x : x.u # v),
               self_loops(S.edges, v, outs))

\* modify_entries<Add>(v, r, _b, _g, _eweight, m_entries, efilt, ...)
modify_entries(Add, S, v, r, efilt) ==
    modify_entries_of(Add, S, v, r, efilt,
                      unfiltered(out_edges_range(S.edges, v, 1), efilt))

\* m_entries.insert_delta(r, s, d) for the entries q[i], q[i + 1], ...: the
\* deltas of one block pair add up
RECURSIVE insert_delta(_, _, _)
insert_delta(D, q, i) ==
    IF i > Len(q) THEN D
    ELSE insert_delta([D EXCEPT ![q[i].k] = @ + q[i].d], q, i + 1)

\* move_entries(v, r, nr, ...) as called by get_move_entries: the removal
\* from r when r is a block, plus the insertion into nr when nr is a block
get_move_entries(S, v, r, nr, efilt) ==
    LET rem == IF r # null_group THEN modify_entries(FALSE, S, v, r, efilt)
               ELSE <<>>
        ins == IF nr # null_group THEN modify_entries(TRUE, S, v, nr, efilt)
               ELSE <<>>
    IN  insert_delta([p \in PairsOf(S) |-> 0], rem \o ins, 1)

\* ---------------------------------------------------- partition bookkeeping
\* _mrp[r] += delta; _mrm[s] += delta for every entry (r, s) of D.  For an
\* undirected graph _mrm is the very map _mrp, so both writes land in it.
add_degs(S, D) ==
    LET outd(x) == SumFun([s \in BS(S) |-> D[<<x, s>>]])
        ind(x) == SumFun([s \in BS(S) |-> D[<<s, x>>]])
    IN  IF directed
        THEN [mrp |-> [x \in BS(S) |-> S.mrp[x] + outd(x)],
              mrm |-> [x \in BS(S) |-> S.mrm[x] + ind(x)]]
        ELSE [mrp |-> [x \in BS(S) |-> S.mrp[x] + outd(x) + ind(x)],
              mrm |-> [x \in BS(S) |-> S.mrp[x] + outd(x) + ind(x)]]

\* remove_partition_node taking one unit out of the block, whatever the
\* weight of v
remove_partition_node_unit(P, v, r) ==
    LET wr1 == [P.wr EXCEPT ![r] = @ - 1]
    IN  IF P.vweight[v] > 0 /\ wr1[r] = 0
        THEN LET c == remove_element(P.candidate_blocks, P.candidate_pos, r)
                 e == add_element(P.empty_blocks, P.empty_pos, r)
             IN  [P EXCEPT !.wr = wr1,
                           !.candidate_blocks = c.vec, !.candidate_pos = c.pos,
                           !.empty_blocks = e.vec, !.empty_pos = e.pos]
        ELSE [P EXCEPT !.wr = wr1]

\* BlockState::remove_partition_node(v, r); P is a block state (this level
\* or the coupled one)
remove_partition_node(P, v, r) ==
    LET wr1 == [P.wr EXCEPT ![r] = @ - P.vweight[v]]
    IN  IF P.vweight[v] > 0 /\ wr1[r] = 0
        THEN LET c == remove_element(P.candidate_blocks, P.candidate_pos, r)
                 e == add_element(P.empty_blocks, P.empty_pos, r)
             IN  [P EXCEPT !.wr = wr1,
                           !.candidate_blocks = c.vec, !.candidate_pos = c.pos,
                           !.empty_blocks = e.vec, !.empty_pos = e.pos]
        ELSE [P EXCEPT !.wr = wr1]

\* add_partition_node putting one unit into the block, whatever the weight
\* of v
add_partition_node_unit(P, v, r) ==
    LET wr1 == [P.wr EXCEPT ![r] = @ + 1]
    IN  IF P.vweight[v] > 0 /\ wr1[r] = P.vweight[v]
        THEN LET e == remove_element(P.empty_blocks, P.empty_pos, r)
                 c == add_element(P.candidate_blocks, P.candidate_pos, r)
             IN  [P EXCEPT !.wr = wr1,
                           !.empty_blocks = e.vec, !.empty_pos = e.pos,
                           !.candidate_blocks = c.vec, !.candidate_pos = c.pos]
        ELSE [P EXCEPT !.wr = wr1]

\* add_partition_node without the _vweight[v] > 0 test
add_partition_node_any(P, v, r) ==
    LET wr1 == [P.wr EXCEPT ![r] = @ + P.vweight[v]]
    IN  IF wr1[r] = P.vweight[v]
        THEN LET e == remove_element(P.empty_blocks, P.empty_pos, r)
                 c == add_element(P.candidate_blocks, P.candidate_pos, r)
             IN  [P EXCEPT !.wr = wr1,
                           !.empty_blocks = e.vec, !.empty_pos = e.pos,
                           !.candidate_blocks = c.vec, !.candidate_pos = c.pos]
        ELSE [P EXCEPT !.wr = wr1]

\* BlockState::add_partition_node(v, r)
add_partition_node(P, v, r) ==
    LET wr1 == [P.wr EXCEPT ![r] = @ + P.vweight[v]]
    IN  IF P.vweight[v] > 0 /\ wr1[r] = P.vweight[v]
        THEN LET e == remove_element(P.empty_blocks, P.empty_pos, r)
                 c == add_element(P.candidate_blocks, P.candidate_pos, r)
             IN  [P EXCEPT !.wr = wr1,
                           !.empty_blocks = e.vec, !.empty_pos = e.pos,
                           !.candidate_blocks = c.vec, !.candidate_pos = c.pos]
        ELSE [P EXCEPT !.wr = wr1]

\* the entries_op loop of modify_vertex<Add>: apply the deltas D to the
\* Block Edge Index, _mrs, _mrp and _mrm
apply_entries_of(Add, S, D, touched, mrs1, dg) ==
    [S EXCEPT !.mrs = mrs1,
              !.emat = IF Add THEN S.emat \cup touched
                       ELSE S.emat \ {p \in touched : mrs1[p] = 0},
              !.mrp = dg.mrp, !.mrm = dg.mrm,
              !.fault = \/ S.fault
                        \/ ~Add /\ touched \ S.emat # {}
                        \/ \E p \in touched : mrs1[p] < 0
                        \/ \E x \in BS(S) : dg.mrp[x] < 0 \/ dg.mrm[x] < 0]

\* _mrs[me] += delta that leaves out the negative deltas
add_mrs_grow(Add, S, D, touched) ==
    [p \in PairsOf(S) |->
        IF p \in touched /\ D[p] > 0
        THEN (IF Add /\ p \notin S.emat THEN 0 ELSE S.mrs[p]) + D[p]
        ELSE S.mrs[p]]

\* _mrs[me] += delta, on an edge me of bg created at 0 when Add finds none
add_mrs(Add, S, D, touched) ==
    [p \in PairsOf(S) |->
        IF p \in touched
        THEN (IF Add /\ p \notin S.emat THEN 0 ELSE S.mrs[p]) + D[p]
        ELSE S.mrs[p]]

apply_touched(Add, S, D, touched) ==
    apply_entries_of(Add, S, D, touched, Eval(add_mrs(Add, S, D, touched)),
                     Eval(add_degs(S, D)))

apply_entries(Add, S, D) ==
    apply_touched(Add, S, D, {p \in PairsOf(S) : D[p] # 0})

\* the tail of modify_vertex<Add>: _b[v] = r and add_partition_node, or
\* remove_partition_node
partition_node(Add, S, v, r) ==
    IF Add
    THEN add_partition_node([S EXCEPT !.b[v] = r], v, r)
    ELSE remove_partition_node(S, v, r)

\* _rec[e][i], the covariate i of the edge e of g (an input): an odd
\* multiple of the weight of e, which has the parity of the weight
rec(E, e, i) == (2 * i + 1) * E[e].w

\* the edges of g with the covariate i of every edge in the place of its
\* weight
rec_edges(E, i) == [e \in 1 .. Len(E) |-> [E[e] EXCEPT !.w = rec(E, e, i)]]

with_rec(S, i) == [S EXCEPT !.edges = rec_edges(S.edges, i)]

\* get<1>(delta) of the entries of get_move_entries: the covariates of the
\* edges, summed per block pair as the weights are
rec_entries(S, v, r, nr, efilt) ==
    [i \in 1 .. Len(S.rec_types) |->
        get_move_entries(with_rec(S, i), v, r, nr, efilt)]

\* the covariate part of the entries_op loop of modify_vertex<Add>: S0 is
\* the state before the loop, S1 the state with the counts applied; an entry
\* of weight delta 0 is skipped, _brec[me] is cleared when me is created and
\* resized to the number of covariates, and every type adds its delta
entries_brec(Add, S0, S1, D, DR) ==
    IF S0.rec_types = <<>> THEN S1
    ELSE [S1 EXCEPT !.brec =
             [p \in PairsOf(S0) |->
                 IF D[p] = 0 THEN S0.brec[p]
                 ELSE [i \in 1 .. Len(S0.rec_types) |->
                          (IF (Add /\ p \notin S0.emat) \/ i > Len(S0.brec[p])
                           THEN 0 ELSE S0.brec[p][i]) + DR[i][p]]]]

\* the entries_op loop of modify_vertex<Add> for the entries D
modify_vertex_entries(Add, S, D, DR) ==
    entries_brec(Add, S, Eval(apply_entries(Add, S, D)), D, DR)

\* dt[0] of out_degreeS()(v, _g, _rec): the first covariate summed over the
\* out-edges of v
waiting_time(E, v) == out_degreeS(rec_edges(E, 1), v)

\* the waiting-time block of modify_vertex<Add> without the test of
\* _ignore_degrees[v]
modify_brecsum_all(Add, S, v, r) ==
    IF S.rec_types # <<>> /\ S.rec_types[1] = "DELTA_T"
    THEN [S EXCEPT !.brecsum[r] = IF Add THEN @ + waiting_time(S.edges, v)
                                  ELSE @ - waiting_time(S.edges, v)]
    ELSE S

\* the waiting-time block of modify_vertex<Add>: _brecsum[r] += dt[0] or
\* _brecsum[r] -= dt[0]
modify_brecsum(Add, S, v, r) ==
    IF /\ S.rec_types # <<>> /\ S.rec_types[1] = "DELTA_T"
       /\ S.ignore_degrees[v] > 0
    THEN [S EXCEPT !.brecsum[r] = IF Add THEN @ + waiting_time(S.edges, v)
                                  ELSE @ - waiting_time(S.edges, v)]
    ELSE S

\* BlockState::modify_vertex<Add>(v, r, efilt)
modify_vertex(Add, S, v, r, efilt) ==
    Eval(partition_node(Add,
        Eval(modify_brecsum(Add,
            Eval(modify_vertex_entries(Add, S,
                Eval(get_move_entries(S, v, IF Add THEN null_group ELSE r,
                                      IF Add THEN r ELSE null_group, efilt)),
                Eval(rec_entries(S, v, IF Add THEN null_group ELSE r,
                                 IF Add THEN r ELSE null_group, efilt)))),
            v, r)),
        v, r))

\* remove_vertex that leaves the counts of v in its old block
remove_vertex_skipped(S, v, r, efilt) == S

\* BlockState::remove_vertex(v, r, efilt)
remove_vertex(S, v, r, efilt) == modify_vertex(FALSE, S, v, r, efilt)

\* BlockState::add_vertex(v, r, efilt)
add_vertex(S, v, r, efilt) == modify_vertex(TRUE, S, v, r, efilt)

\* allow_move without the exemption of an empty target
allow_move_strict(S, r, nr) == S.bclabel[r] = S.bclabel[nr]

\* BlockState::allow_move(r, nr, allow_empty = true)
allow_move(S, r, nr) == (S.bclabel[r] = S.bclabel[nr]) \/ (S.wr[nr] = 0)

\* BlockState::set_vertex_weight(v, w) of the (weighted) coupled state
set_vertex_weight(P, v, w) == [P EXCEPT !.vweight[v] = w]

\* the coupled-state propagation at the end of move_vertex; C1 is the
\* coupled state after the source block was looked at
couple_target(S, C1, v, r, nr) ==
    IF S.wr[nr] = S.vweight[v]
    THEN [S EXCEPT !.cstate = [add_partition_node(set_vertex_weight(C1, nr, 1),
                                                  nr, S.bclabel[r])
                                  EXCEPT !.b[nr] = S.bclabel[r]],
                   !.bclabel[nr] = S.bclabel[r]]
    ELSE [S EXCEPT !.cstate = C1]

\* couple_move with the target block looked at first
couple_move_target_first(S, v, r, nr) ==
    IF S.wr[r] = 0
    THEN [couple_target(S, S.cstate, v, r, nr) EXCEPT
             !.cstate = set_vertex_weight(
                            remove_partition_node(@, r, S.bclabel[r]), r, 0)]
    ELSE couple_target(S, S.cstate, v, r, nr)

couple_move(S, v, r, nr) ==
    couple_target(S,
                  IF S.wr[r] = 0
                  THEN set_vertex_weight(
                           remove_partition_node(S.cstate, r, S.bclabel[r]), r, 0)
                  ELSE S.cstate,
                  v, r, nr)

\* the end of move_vertex: the coupled state hears of the move of a vertex
\* of positive weight
couple_if(S, v, r, nr) ==
    IF coupled /\ S.vweight[v] > 0 THEN Eval(couple_move(S, v, r, nr)) ELSE S

\* move_vertex without the early return for r = nr
move_vertex_always(S, v, r, nr) ==
    IF ~allow_move(S, r, nr) THEN [S EXCEPT !.err = "ValueException"]
    ELSE couple_if(add_vertex(remove_vertex(S, v, r, {}), v, nr, {}), v, r, nr)

\* BlockState::move_vertex(v, r, nr)
move_vertex(S, v, r, nr) ==
    IF r = nr THEN S
    ELSE IF ~allow_move(S, r, nr) THEN [S EXCEPT !.err = "ValueException"]
    ELSE couple_if(add_vertex(remove_vertex(S, v, r, {}), v, nr, {}), v, r, nr)

\* ---------------------------------------------------------- bulk variants
\* the edge set eset of remove_vertices / add_vertices: the edges of g with
\* both endpoints in the batch
batch_edges(S, vset) ==
    {i \in 1 .. Len(S.edges) : S.edges[i].s \in vset /\ S.edges[i].t \in vset}

\* the eset loop of remove_vertices without _mrm[s] -= ew
remove_batch_edge_nomrm(S, e) ==
    LET r == S.b[S.edges[e].s]
        s == S.b[S.edges[e].t]
        k == Key(r, s)
        ew == S.edges[e].w
        mrs1 == [S.mrs EXCEPT ![k] = @ - ew]
    IN  [S EXCEPT !.mrs = mrs1, !.mrp[r] = @ - ew,
                  !.emat = IF mrs1[k] = 0 THEN S.emat \ {k} ELSE S.emat,
                  !.fault = S.fault \/ ~has_me(S, r, s) \/ mrs1[k] < 0]

\* the covariates the switch of the eset loops of remove_vertices and
\* add_vertices has a case for: every type but DELTA_T
batch_types(S) ==
    {i \in 1 .. Len(S.rec_types) : S.rec_types[i] # "DELTA_T"}

\* _brec[me][i] += sgn * _rec[e][i] for those covariates, on the vector q
\* that _brec[me] is
batch_brec(S, q, e, sgn) ==
    [i \in 1 .. Len(q) |->
        IF i \in batch_types(S) THEN q[i] + sgn * rec(S.edges, e, i) ELSE q[i]]

\* one of those writes is past the end of the vector q
batch_brec_outside(S, q) == \E i \in batch_types(S) : i > Len(q)

\* one round of the eset loop of remove_vertices, for the edge e of g
remove_batch_edge(S, e) ==
    LET r == S.b[S.edges[e].s]
        s == S.b[S.edges[e].t]
        k == Key(r, s)
        ew == S.edges[e].w
        mrs1 == [S.mrs EXCEPT ![k] = @ - ew]
        dg == add_degs(S, [p \in PairsOf(S) |-> IF p = <<r, s>> THEN 0 - ew ELSE 0])
    IN  [S EXCEPT !.mrs = mrs1, !.mrp = dg.mrp, !.mrm = dg.mrm,
                  !.brec[k] = batch_brec(S, @, e, -1),
                  !.emat = IF mrs1[k] = 0 THEN S.emat \ {k} ELSE S.emat,
                  !.fault = \/ S.fault \/ ~has_me(S, r, s) \/ mrs1[k] < 0
                            \/ batch_brec_outside(S, S.brec[k])]

\* one round of the eset loop of add_vertices, for the edge e of g; vset is
\* the vertex -> block map of the batch
add_batch_edge(S, vset, e) ==
    LET r == vset[S.edges[e].s]
        s == vset[S.edges[e].t]
        k == Key(r, s)
        ew == S.edges[e].w
        mrs0 == IF has_me(S, r, s) THEN S.mrs ELSE [S.mrs EXCEPT ![k] = 0]
        brec0 == IF has_me(S, r, s) THEN S.brec[k] ELSE <<>>
        dg == add_degs(S, [p \in PairsOf(S) |-> IF p = <<r, s>> THEN ew ELSE 0])
    IN  [S EXCEPT !.mrs = [mrs0 EXCEPT ![k] = @ + ew], !.emat = S.emat \cup {k},
                  !.mrp = dg.mrp, !.mrm = dg.mrm,
                  !.brec[k] = batch_brec(S, brec0, e, 1),
                  !.fault = S.fault \/ batch_brec_outside(S, brec0)]

\* the smallest element of a nonempty set of integers
Least(X) == CHOOSE x \in X : \A y \in X : x <= y

\* for (auto v : vset) remove_vertex(v, _b[v], efilt)
RECURSIVE remove_each(_, _, _)
remove_each(S, vset, eset) ==
    IF vset = {} THEN S
    ELSE LET v == Least(vset)
         IN  remove_each(Eval(remove_vertex(S, v, S.b[v], eset)), vset \ {v}, eset)

RECURSIVE remove_batch_edges(_, _)
remove_batch_edges(S, eset) ==
    IF eset = {} THEN S
    ELSE LET e == Least(eset)
         IN  remove_batch_edges(Eval(remove_batch_edge(S, e)), eset \ {e})

\* remove_vertices whose remove_vertex calls do not filter out the edges of
\* eset
remove_vertices_unfiltered(S, vs) ==
    LET vset == Range(vs)
        eset == batch_edges(S, vset)
    IN  remove_batch_edges(remove_each(S, vset, {}), eset)

\* BlockState::remove_vertices(vs)
remove_vertices(S, vs) ==
    LET vset == Range(vs)
        eset == batch_edges(S, vset)
    IN  remove_batch_edges(remove_each(S, vset, eset), eset)

\* for (auto vr : vset) add_vertex(vr.first, vr.second, efilt)
RECURSIVE add_each(_, _, _, _)
add_each(S, vset, todo, eset) ==
    IF todo = {} THEN S
    ELSE LET v == Least(todo)
         IN  add_each(Eval(add_vertex(S, v, vset[v], eset)), vset, todo \ {v}, eset)

RECURSIVE add_batch_edges(_, _, _)
add_batch_edges(S, vset, eset) ==
    IF eset = {} THEN S
    ELSE LET e == Least(eset)
         IN  add_batch_edges(Eval(add_batch_edge(S, vset, e)), vset, eset \ {e})

\* BlockState::add_vertices(vs, rs); vset[vs[i]] = rs[i], a later entry
\* overwriting an earlier one
add_vertices(S, vs, rs) ==
    IF Len(vs) # Len(rs) THEN [S EXCEPT !.err = "ValueException"]
    ELSE LET vset == [v \in Range(vs) |->
                         rs[CHOOSE i \in 1 .. Len(vs) :
                               vs[i] = v /\ \A j \in (i + 1) .. Len(vs) : vs[j] # v]]
             eset == batch_edges(S, DOMAIN vset)
         IN  add_batch_edges(add_each(S, vset, DOMAIN vset, eset), vset, eset)

\* the loop of the template move_vertices(v, nr), from index i on: an
\* exception thrown by move_vertex ends it
RECURSIVE move_vertices_from(_, _, _, _)
move_vertices_next(S1, vs, nrs, i) ==
    IF S1.err # "none" THEN S1 ELSE move_vertices_from(S1, vs, nrs, i + 1)

move_vertices_from(S, vs, nrs, i) ==
    IF i > Len(vs) \/ i > Len(nrs) THEN S
    ELSE move_vertices_next(Eval(move_vertex(S, vs[i], S.b[vs[i]], nrs[i])),
                            vs, nrs, i)

\* template <class Vec> BlockState::move_vertices(Vec& v, Vec& nr)
move_vertices(S, vs, nrs) == move_vertices_from(S, vs, nrs, 1)

\* move_vertices comparing the lengths only after the moves
move_vertices_py_late(S, vs, rs) ==
    IF Len(vs) # Len(rs)
    THEN [move_vertices(S, vs, rs) EXCEPT !.err = "ValueException"]
    ELSE move_vertices(S, vs, rs)

\* BlockState::move_vertices(python::object ovs, python::object ors)
move_vertices_py(S, vs, rs) ==
    IF Len(vs) # Len(rs) THEN [S EXCEPT !.err = "ValueException"]
    ELSE move_vertices(S, vs, rs)

\* ------------------------------------------------------------------- merge
\* the other endpoints of a list of incident edges
Ends(q) == {q[i].u : i \in 1 .. Len(q)}

\* the total weight of the edges of q whose other endpoint is t
WeightTo(E, q, t) ==
    SumSeq([i \in 1 .. Len(q) |-> IF q[i].u = t THEN E[q[i].e].w ELSE 0])

\* add_weight that sets the weight of the edge it finds to w
add_weight_set(E, q, t, w, ne) ==
    LET hits == {i \in 1 .. Len(q) : q[i].u = t}
    IN  IF hits # {}
        THEN [E EXCEPT ![q[Least(hits)].e].w = w]
        ELSE Append(E, ne)

\* add weight w to the first edge of q that leads to t, or add a new edge ne
\* when there is none
add_weight(E, q, t, w, ne) ==
    LET hits == {i \in 1 .. Len(q) : q[i].u = t}
    IN  IF hits # {}
        THEN [E EXCEPT ![q[Least(hits)].e].w = @ + w]
        ELSE Append(E, ne)

\* first loop of merge_vertices: the out-edges of u, grouped by target, are
\* added to the out-edges of v; todo is the set of targets still to do
RECURSIVE merge_out(_, _, _, _, _)
merge_out(E0, E, u, v, todo) ==
    IF todo = {} THEN E
    ELSE LET t0 == Least(todo)
             w0 == WeightTo(E0, out_edges_range(E0, u, 1), t0)
             t == IF t0 = u THEN v ELSE t0
             w == IF t0 = u /\ ~directed THEN w0 \div 2 ELSE w0
             E1 == add_weight(E, out_edges_range(E, v, 1), t, w,
                              [s |-> v, t |-> t, w |-> w])
         IN  merge_out(E0, E1, u, v, todo \ {t0})

\* second loop (directed graphs): the in-edges of u, grouped by source
RECURSIVE merge_in(_, _, _, _, _)
merge_in(E0, E, u, v, todo) ==
    IF todo = {} THEN E
    ELSE LET s == Least(todo)
             w == WeightTo(E0, in_edges_range(E0, u, 1), s)
             E1 == IF s = u THEN E
                   ELSE add_weight(E, in_edges_range(E, v, 1), s, w,
                                   [s |-> s, t |-> v, w |-> w])
         IN  merge_in(E0, E1, u, v, todo \ {s})

\* merge_vertices that looks at is_weighted before u = v
merge_vertices_unweighted_first(S, u, v) ==
    IF ~is_weighted THEN [S EXCEPT !.err = "ValueException"]
    ELSE IF u = v THEN S
    ELSE LET E0 == S.edges
             E1 == merge_out(E0, E0, u, v, Ends(out_edges_range(E0, u, 1)))
             E2 == IF directed
                   THEN merge_in(E1, E1, u, v, Ends(in_edges_range(E1, u, 1)))
                   ELSE E1
             E3 == SelectSeq(E2, LAMBDA e : e.s # u /\ e.t # u)
         IN  [S EXCEPT !.edges = E3,
                       !.vweight = [S.vweight EXCEPT ![v] = @ + S.vweight[u],
                                                     ![u] = 0],
                       !.merge_map[u] = v]

\* BlockState::merge_vertices(u, v)
merge_vertices(S, u, v) ==
    IF u = v THEN S
    ELSE IF ~is_weighted THEN [S EXCEPT !.err = "ValueException"]
    ELSE LET E0 == S.edges
             E1 == merge_out(E0, E0, u, v, Ends(out_edges_range(E0, u, 1)))
             E2 == IF directed
                   THEN merge_in(E1, E1, u, v, Ends(in_edges_range(E1, u, 1)))
                   ELSE E1
             E3 == SelectSeq(E2, LAMBDA e : e.s # u /\ e.t # u)
         IN  [S EXCEPT !.edges = E3,
                       !.vweight = [S.vweight EXCEPT ![v] = @ + S.vweight[u],
                                                     ![u] = 0],
                       !.merge_map[u] = v]

\* ------------------------------------------------------------- recounting
\* the per-block weights recomputed from b and vweight, as check_node_counts
\* does; R is the set of blocks
node_counts(bb, vw, R) ==
    [r \in R |-> SumFun([v \in DOMAIN vw |-> IF bb[v] = r THEN vw[v] ELSE 0])]

\* the block-pair edge counts recomputed from the edges of g, as
\* check_edge_counts does
edge_counts(E, bb, R) ==
    [p \in R \X R |->
        SumSeq([i \in 1 .. Len(E) |->
                   IF Key(bb[E[i].s], bb[E[i].t]) = p THEN E[i].w ELSE 0])]

\* BlockState::check_edge_counts(emat = true)
check_edge_counts(S) ==
    LET cnt == edge_counts(S.edges, S.b, BS(S))
    IN  \A p \in PairsOf(S) :
            cnt[p] # 0 => (has_me(S, p[1], p[2]) /\ S.mrs[p] = cnt[p])

\* BlockState::check_node_counts()
check_node_counts(S) == S.wr = node_counts(S.b, S.vweight, BS(S))

\* ------------------------------------------------------- Entropy Evaluator
\* A description length is kept as the list of the terms the code adds up,
\* each [c |-> coefficient, f |-> function, a |-> arguments].  The term
\* functions stay uninterpreted; two values are compared as sums of terms.
Term(c, f, a) == <<[c |-> c, f |-> f, a |-> a]>>

RECURSIVE Flat(_)
Flat(qq) == IF qq = <<>> THEN <<>> ELSE Head(qq) \o Flat(Tail(qq))

\* -q
Neg(q) == [i \in 1 .. Len(q) |-> [q[i] EXCEPT !.c = 0 - @]]

\* the coefficient the list q gives the term k in all
coef_of(q, k) ==
    SumSeq([i \in 1 .. Len(q) |->
               IF q[i].f = k.f /\ q[i].a = k.a THEN q[i].c ELSE 0])

\* the sum of the list q: each term with its coefficient, the terms that
\* cancel left out
TermSum(q) ==
    LET keys == {[f |-> q[i].f, a |-> q[i].a] : i \in 1 .. Len(q)}
    IN  [k \in {x \in keys : coef_of(q, x) # 0} |-> coef_of(q, k)]

\* what a read-only call hands back: a value, +infinity or an exception
Value(q) == [err |-> "none", inf |-> FALSE, val |-> q]
Infinity == [err |-> "none", inf |-> TRUE, val |-> <<>>]
Throw(e) == [err |-> e, inf |-> FALSE, val |-> <<>>]

\* the block pairs of a state in increasing order
PairSeq(S) ==
    [i \in 1 .. (Cardinality(BS(S)) * Cardinality(BS(S))) |->
        <<(i - 1) \div Cardinality(BS(S)), (i - 1) % Cardinality(BS(S))>>]

\* in_degreeS()(v, g, eweight)
in_degreeS(E, v) ==
    LET q == in_edges_range(E, v, 1)
    IN  SumSeq([i \in 1 .. Len(q) |-> E[q[i].e].w])

\* c * f(r, s, mrs) for an edge term f: it depends on the count and, for an
\* undirected graph, on whether the pair is diagonal, and is 0 for no edges
eterm_of(c, f, r, s, m) ==
    IF m = 0 THEN <<>>
    ELSE Term(c, f, <<IF r = s /\ ~directed THEN 1 ELSE 0, m>>)

\* eterm(r, s, mrs, bg)
eterm(c, r, s, m) == eterm_of(c, "eterm", r, s, m)

\* eterm_exact(r, s, mrs, bg)
eterm_exact(c, r, s, m) == eterm_of(c, "eterm_exact", r, s, m)

\* vterm(mrp, mrm, wr, deg_corr, bg)
vterm(c, p, m, w) ==
    Term(c, "vterm", <<p, m, w, IF deg_corr THEN 1 ELSE 0>>)

\* vterm_exact(mrp, mrm, wr, deg_corr, bg)
vterm_exact(c, p, m, w) ==
    Term(c, "vterm_exact", <<p, m, w, IF deg_corr THEN 1 ELSE 0>>)

\* eterm_dense(r, s, ers, wr_r, wr_s, multigraph, bg): 0 for no edges; for
\* an undirected graph the two weights of a pair come in no order
eterm_dense(c, r, s, ers, wr_r, wr_s, multigraph) ==
    IF ers = 0 THEN <<>>
    ELSE Term(c, "eterm_dense",
              << IF r = s /\ ~directed THEN 1 ELSE 0, ers,
                 IF directed \/ wr_r <= wr_s THEN wr_r ELSE wr_s,
                 IF directed \/ wr_r <= wr_s THEN wr_s ELSE wr_r,
                 IF multigraph THEN 1 ELSE 0 >>)

\* entries_dS<exact>(m_entries, _mrs, _emat, _bg): for every entry (r, s)
\* with delta d the edge term at ers + d minus the edge term at ers
entries_dS_of(exact, S, D, ps) ==
    Flat([i \in 1 .. Len(ps) |->
            IF D[ps[i]] = 0 THEN <<>>
            ELSE IF exact
            THEN eterm_exact(1, ps[i][1], ps[i][2],
                             get_beprop(S, ps[i][1], ps[i][2]) + D[ps[i]])
                 \o eterm_exact(-1, ps[i][1], ps[i][2],
                                get_beprop(S, ps[i][1], ps[i][2]))
            ELSE eterm(1, ps[i][1], ps[i][2],
                       get_beprop(S, ps[i][1], ps[i][2]) + D[ps[i]])
                 \o eterm(-1, ps[i][1], ps[i][2],
                          get_beprop(S, ps[i][1], ps[i][2]))])

entries_dS(exact, S, D) == entries_dS_of(exact, S, D, PairSeq(S))

\* the lambda vt of virtual_move_sparse
vt(c, exact, p, m, w) ==
    IF exact THEN vterm_exact(c, p, m, w) ELSE vterm(c, p, m, w)

\* virtual_move_sparse after its locals kout, kin, dwr, dwnr are set
sparse_terms(S, r, nr, exact, D, kout, kin, dwr, dwnr) ==
    entries_dS(exact, S, D)
    \o (IF r # null_group
        THEN vt(1, exact, S.mrp[r] - kout, S.mrm[r] - kin, S.wr[r] - dwr)
             \o vt(-1, exact, S.mrp[r], S.mrm[r], S.wr[r])
        ELSE <<>>)
    \o (IF nr # null_group
        THEN vt(1, exact, S.mrp[nr] + kout, S.mrm[nr] + kin, S.wr[nr] + dwnr)
             \o vt(-1, exact, S.mrp[nr], S.mrm[nr], S.wr[nr])
        ELSE <<>>)

\* the weight a vertex of weight w arrives with: dwnr
arriving_weight(r, w) == IF r = null_group /\ w = 0 THEN 1 ELSE w

\* BlockState::virtual_move_sparse<exact>(v, r, nr, m_entries)
virtual_move_sparse(S, v, r, nr, exact, D) ==
    IF r = nr THEN <<>>
    ELSE sparse_terms(S, r, nr, exact, D, out_degreeS(S.edges, v),
                      IF directed THEN in_degreeS(S.edges, v)
                      ELSE out_degreeS(S.edges, v),
                      S.vweight[v], arriving_weight(r, S.vweight[v]))

\* The overload virtual_move_sparse<exact>(v, r, nr) has the single
\* statement return virtual_move_sparse<exact>(v, r, nr); three arguments
\* select the same overload again.  A recursion without end and without
\* side effects has undefined behaviour; a build compiles it as calls that
\* push a frame each ("frames"), as a jump to the head of the function
\* ("jump"), or as code that relies on the call returning ("assumed").
Builds == {"frames", "jump", "assumed"}

\* the call of virtual_move_sparse<exact>(v, r, nr): the first frame
virtual_move_sparse_call(S, exact, build) ==
    [S EXCEPT !.ret = [NoRet EXCEPT !.ea.exact = exact, !.call = "running",
                                   !.build = build, !.frames = 1]]

\* the statement of the overload: one more call of the overload itself,
\* or the end of the stack
virtual_move_sparse_self(R) ==
    IF R.frames < MaxFrames THEN [R EXCEPT !.frames = @ + 1]
    ELSE [R EXCEPT !.call = "overflow"]

\* the statement of the overload as a jump: the frame is used again
virtual_move_sparse_jump(R) == [R EXCEPT !.jumps = 1 - @]

\* the statement of the overload in a build that relies on its return: x
\* is the value found in the return register
virtual_move_sparse_assumed(R, x) ==
    [R EXCEPT !.call = "returned", !.frames = 0, !.sum = TermSum(x)]

\* deltap / deltam of virtual_move_dense: the weight of the edges q of v
\* towards each block, self-loops left out; all 0 when nr is null_group
dense_delta(S, v, nr, q) ==
    [s \in BS(S) |->
        IF nr = null_group THEN 0
        ELSE SumSeq([i \in 1 .. Len(q) |->
                        IF q[i].u # v /\ S.b[q[i].u] = s
                        THEN S.edges[q[i].e].w ELSE 0])]

\* deltal without deltal /= 2 for an undirected graph
dense_loops_twice(S, v, nr, q) ==
    IF nr = null_group THEN 0
    ELSE SumSeq([i \in 1 .. Len(q) |->
                    IF q[i].u = v THEN S.edges[q[i].e].w ELSE 0])

\* deltal of virtual_move_dense: the weight of the self-loops of v
dense_loops(S, v, nr, q) ==
    IF nr = null_group THEN 0
    ELSE SumSeq([i \in 1 .. Len(q) |->
                    IF q[i].u = v THEN S.edges[q[i].e].w ELSE 0])
         \div (IF directed THEN 1 ELSE 2)

\* the body of the loop over s of virtual_move_dense, undirected graph:
\* Sf - Si for block s
dense_undirected(S, r, nr, mg, s, dwr, dwnr, dp, dl, ers, enrs) ==
    (IF s # nr /\ s # r /\ r # null_group
     THEN eterm_dense(-1, r, s, ers, S.wr[r], S.wr[s], mg)
          \o eterm_dense(1, r, s, ers - dp[s], S.wr[r] - dwr, S.wr[s], mg)
     ELSE <<>>)
    \o (IF s # nr /\ s # r /\ nr # null_group
        THEN eterm_dense(-1, nr, s, enrs, S.wr[nr], S.wr[s], mg)
             \o eterm_dense(1, nr, s, enrs + dp[s], S.wr[nr] + dwnr, S.wr[s], mg)
        ELSE <<>>)
    \o (IF s = r
        THEN eterm_dense(-1, r, r, ers, S.wr[r], S.wr[r], mg)
             \o eterm_dense(1, r, r, ers - dp[r] - dl, S.wr[r] - dwr,
                            S.wr[r] - dwr, mg)
        ELSE <<>>)
    \o (IF s = nr
        THEN eterm_dense(-1, nr, nr, enrs, S.wr[nr], S.wr[nr], mg)
             \o eterm_dense(1, nr, nr, enrs + dp[nr] + dl, S.wr[nr] + dwnr,
                            S.wr[nr] + dwnr, mg)
        ELSE <<>>)
    \o (IF s = nr /\ r # null_group
        THEN eterm_dense(-1, r, nr, ers, S.wr[r], S.wr[nr], mg)
             \o eterm_dense(1, r, nr, ers - dp[nr] + dp[r], S.wr[r] - dwr,
                            S.wr[nr] + dwnr, mg)
        ELSE <<>>)

\* the same for a directed graph, the pairs (r, s), (nr, s) of the block s:
\* ers = mrs[r, s], enrs = mrs[nr, s]
dense_directed_out(S, r, nr, mg, s, dwr, dwnr, dp, dm, dl, ers, enrs) ==
    (IF s # nr /\ s # r /\ r # null_group
     THEN eterm_dense(-1, r, s, ers, S.wr[r], S.wr[s], mg)
          \o eterm_dense(1, r, s, ers - dp[s], S.wr[r] - dwr, S.wr[s], mg)
     ELSE <<>>)
    \o (IF s # nr /\ s # r /\ nr # null_group
        THEN eterm_dense(-1, nr, s, enrs, S.wr[nr], S.wr[s], mg)
             \o eterm_dense(1, nr, s, enrs + dp[s], S.wr[nr] + dwnr, S.wr[s], mg)
        ELSE <<>>)
    \o (IF s = r
        THEN eterm_dense(-1, r, r, ers, S.wr[r], S.wr[r], mg)
             \o eterm_dense(1, r, r, ers - dp[r] - dm[r] - dl, S.wr[r] - dwr,
                            S.wr[r] - dwr, mg)
        ELSE <<>>)

\* and the pairs (s, r), (s, nr): esr = mrs[s, r], esnr = mrs[s, nr]
dense_directed_in(S, r, nr, mg, s, dwr, dwnr, dp, dm, dl, esr, esnr) ==
    (IF s # nr /\ s # r /\ r # null_group
     THEN eterm_dense(-1, s, r, esr, S.wr[s], S.wr[r], mg)
          \o eterm_dense(1, s, r, esr - dm[s], S.wr[s], S.wr[r] - dwr, mg)
     ELSE <<>>)
    \o (IF s # nr /\ s # r /\ nr # null_group
        THEN eterm_dense(-1, s, nr, esnr, S.wr[s], S.wr[nr], mg)
             \o eterm_dense(1, s, nr, esnr + dm[s], S.wr[s], S.wr[nr] + dwnr, mg)
        ELSE <<>>)
    \o (IF s = r /\ nr # null_group
        THEN eterm_dense(-1, r, nr, esnr, S.wr[r], S.wr[nr], mg)
             \o eterm_dense(1, r, nr, esnr - dp[nr] + dm[r], S.wr[r] - dwr,
                            S.wr[nr] + dwnr, mg)
        ELSE <<>>)
    \o (IF s = nr
        THEN eterm_dense(-1, nr, nr, esnr, S.wr[nr], S.wr[nr], mg)
             \o eterm_dense(1, nr, nr, esnr + dp[nr] + dm[nr] + dl,
                            S.wr[nr] + dwnr, S.wr[nr] + dwnr, mg)
        ELSE <<>>)
    \o (IF s = nr /\ r # null_group
        THEN eterm_dense(-1, nr, r, esr, S.wr[nr], S.wr[r], mg)
             \o eterm_dense(1, nr, r, esr + dp[r] - dm[nr], S.wr[nr] + dwnr,
                            S.wr[r] - dwr, mg)
        ELSE <<>>)

\* the count of the pair (x, y), 0 when x or y is null_group
pair_count(S, x, y) ==
    IF x # null_group /\ y # null_group THEN get_beprop(S, x, y) ELSE 0

\* the loop over the blocks s of virtual_move_dense
dense_terms(S, r, nr, mg, dwr, dwnr, dp, dm, dl) ==
    Flat([i \in 1 .. Cardinality(BS(S)) |->
            IF directed
            THEN dense_directed_out(S, r, nr, mg, i - 1, dwr, dwnr, dp, dm, dl,
                                    pair_count(S, r, i - 1),
                                    pair_count(S, nr, i - 1))
                 \o dense_directed_in(S, r, nr, mg, i - 1, dwr, dwnr, dp, dm, dl,
                                      pair_count(S, i - 1, r),
                                      pair_count(S, i - 1, nr))
            ELSE dense_undirected(S, r, nr, mg, i - 1, dwr, dwnr, dp, dl,
                                  pair_count(S, r, i - 1),
                                  pair_count(S, nr, i - 1))])

\* virtual_move_dense that looks at _deg_corr only after r = nr is dealt with
virtual_move_dense_late(S, v, r, nr, multigraph) ==
    IF r = nr THEN Value(<<>>)
    ELSE IF deg_corr THEN Throw("GraphException")
    ELSE Value(dense_terms(S, r, nr, multigraph, S.vweight[v],
                           arriving_weight(r, S.vweight[v]),
                           dense_delta(S, v, nr, out_edges_range(S.edges, v, 1)),
                           dense_delta(S, v, nr, in_edges_range(S.edges, v, 1)),
                           dense_loops(S, v, nr, out_edges_range(S.edges, v, 1))))

\* BlockState::virtual_move_dense(v, r, nr, multigraph)
virtual_move_dense(S, v, r, nr, multigraph) ==
    IF deg_corr THEN Throw("GraphException")
    ELSE IF r = nr THEN Value(<<>>)
    ELSE Value(dense_terms(S, r, nr, multigraph, S.vweight[v],
                           arriving_weight(r, S.vweight[v]),
                           dense_delta(S, v, nr, out_edges_range(S.edges, v, 1)),
                           dense_delta(S, v, nr, in_edges_range(S.edges, v, 1)),
                           dense_loops(S, v, nr, out_edges_range(S.edges, v, 1))))

\* the adjacency part of virtual_move
adjacency_dS(S, v, r, nr, ea, D) ==
    IF ~ea.adjacency THEN Value(<<>>)
    ELSE IF ea.dense THEN virtual_move_dense(S, v, r, nr, ea.multigraph)
    ELSE Value(virtual_move_sparse(S, v, r, nr, ea.exact, D))

\* the description-length part of virtual_move: the deltas the Partition
\* Statistics hand out
partition_stats_dS(v, r, nr, ea) ==
    (IF ea.partition_dl
     THEN Term(1, "get_delta_partition_dl", <<v, r, nr>>) ELSE <<>>)
    \o (IF deg_corr /\ ea.degree_dl
        THEN Term(1, "get_delta_deg_dl", <<v, r, nr>>) ELSE <<>>)
    \o (IF ea.edges_dl
        THEN Term(1, "get_delta_edges_dl", <<v, r, nr>>) ELSE <<>>)

\* the coupled part that adds a delta whenever r is vacated and whenever nr
\* is occupied
coupled_terms_both(S, r, nr, r_vacate, nr_occupy) ==
    (IF r_vacate
     THEN Term(1, "coupled_virtual_move", <<r, S.bclabel[r], null_group>>)
     ELSE <<>>)
    \o (IF nr_occupy
        THEN Term(1, "coupled_virtual_move", <<nr, null_group, S.bclabel[r]>>)
        ELSE <<>>)

\* the coupled part of virtual_move once r_vacate and nr_occupy are known:
\* the virtual moves of the blocks r and nr in the coupled state
coupled_terms(S, r, nr, r_vacate, nr_occupy) ==
    IF r_vacate = nr_occupy THEN <<>>
    ELSE (IF r_vacate
          THEN Term(1, "coupled_virtual_move", <<r, S.bclabel[r], null_group>>)
          ELSE <<>>)
         \o (IF nr_occupy
             THEN Term(1, "coupled_virtual_move",
                       <<nr, null_group, S.bclabel[r]>>)
             ELSE <<>>)

coupled_dS(S, v, r, nr) ==
    IF coupled /\ S.vweight[v] > 0
    THEN coupled_terms(S, r, nr,
                       r # null_group /\ S.wr[r] = S.vweight[v],
                       nr # null_group /\ S.wr[nr] = 0)
    ELSE <<>>

\* virtual_move from get_move_entries on; adj is what the adjacency part
\* returned or threw
virtual_move_with(S, v, r, nr, ea, adj) ==
    IF adj.err # "none"
    THEN [S EXCEPT !.err = adj.err, !.ret = [NoRet EXCEPT !.ea = ea]]
    ELSE [S EXCEPT
            !.pstats = @ \/ ea.partition_dl \/ ea.degree_dl \/ ea.edges_dl,
            !.fault = \/ @
                      \/ /\ coupled /\ S.vweight[v] > 0 /\ nr # null_group
                         /\ S.wr[nr] = 0
                         /\ ~(r # null_group /\ S.wr[r] = S.vweight[v])
                         /\ S.cstate.vweight[nr] # 0,
            !.ret = [NoRet EXCEPT
                     !.ea = ea,
                     !.sum = TermSum(adj.val
                                     \o partition_stats_dS(v, r, nr, ea)
                                     \o coupled_dS(S, v, r, nr))]]

\* virtual_move that commits the entries of the move it evaluates
virtual_move_applied(S, v, r, nr, ea) ==
    IF r = nr THEN [S EXCEPT !.ret = [NoRet EXCEPT !.ea = ea]]
    ELSE IF r # null_group /\ nr # null_group /\ ~allow_move(S, r, nr)
    THEN [S EXCEPT !.ret = [NoRet EXCEPT !.ea = ea, !.inf = TRUE]]
    ELSE virtual_move_with(
             apply_entries(TRUE, S, Eval(get_move_entries(S, v, r, nr, {}))),
             v, r, nr, ea,
             adjacency_dS(S, v, r, nr, ea,
                          Eval(get_move_entries(S, v, r, nr, {}))))

\* virtual_move that looks at the labels only after the adjacency part
virtual_move_unlabelled(S, v, r, nr, ea) ==
    IF r = nr THEN [S EXCEPT !.ret = [NoRet EXCEPT !.ea = ea]]
    ELSE virtual_move_with(S, v, r, nr, ea,
                           adjacency_dS(S, v, r, nr, ea,
                                        Eval(get_move_entries(S, v, r, nr, {}))))

\* BlockState::virtual_move(v, r, nr, ea): the state has no edge covariates
\* (_rec_types is empty), so the ea.recs part adds nothing
virtual_move(S, v, r, nr, ea) ==
    IF r = nr THEN [S EXCEPT !.ret = [NoRet EXCEPT !.ea = ea]]
    ELSE IF r # null_group /\ nr # null_group /\ ~allow_move(S, r, nr)
    THEN [S EXCEPT !.ret = [NoRet EXCEPT !.ea = ea, !.inf = TRUE]]
    ELSE virtual_move_with(S, v, r, nr, ea,
                           adjacency_dS(S, v, r, nr, ea,
                                        Eval(get_move_entries(S, v, r, nr, {}))))

\* the number of blocks a proposal chooses among: B of get_move_prob
proposal_blocks(S) ==
    IF S.empty_blocks = <<>> THEN Len(S.candidate_blocks) - 1
    ELSE Len(S.candidate_blocks)

\* the lambda sum_prob of get_move_prob for the edge q[i] of v, once the
\* counts mts, mst and the degree sums mtp, mtm of the block t are read:
\* ew * (mts + mst + c) / (mtp + mtm + c * B) for a directed graph, and for
\* an undirected one ew * (mts + c) / (mtp + c * B), mts doubled when t = s.
\* The term is [c |-> ew, a |-> <<numerator, denominator, w>>].
sum_prob_of(S, r, s, c, reverse, ew, w, t, kout, kin, mts, mst, mtp, mtm) ==
    IF directed
    THEN Term(ew, "frac",
              << mts + mst + c,
                 mtp + mtm + c * proposal_blocks(S)
                 + (IF reverse /\ t = r THEN kout + kin ELSE 0)
                 - (IF reverse /\ t = s THEN kout + kin ELSE 0), w >>)
    ELSE Term(ew, "frac",
              << (IF t = s THEN 2 * mts ELSE mts) + c,
                 mtp + c * proposal_blocks(S)
                 + (IF reverse /\ t = r THEN kout ELSE 0)
                 - (IF reverse /\ t = s THEN kout ELSE 0), w >>)

\* sum_prob for the edge x of v towards the block t
sum_prob(S, r, s, c, reverse, D, x, w, t, kout, kin) ==
    sum_prob_of(S, r, s, c, reverse, S.edges[x.e].w, w, t, kout, kin,
                get_beprop(S, t, s) + (IF reverse THEN D[Key(t, s)] ELSE 0),
                (IF directed THEN get_beprop(S, s, t) ELSE 0)
                + (IF reverse /\ directed THEN D[Key(s, t)] ELSE 0),
                S.mrp[t], IF directed THEN S.mrm[t] ELSE 0)

\* the two loops of get_move_prob over the edges q of v that are no
\* self-loops; w is the weight of them all
get_move_prob_of(S, v, r, s, c, reverse, D, q, w) ==
    IF w > 0
    THEN Flat([i \in 1 .. Len(q) |->
                 sum_prob(S, r, s, c, reverse, D, q[i], w, S.b[q[i].u],
                          out_degreeS(S.edges, v),
                          IF directed THEN in_degreeS(S.edges, v)
                          ELSE out_degreeS(S.edges, v))])
    ELSE Term(1, "frac", <<1, proposal_blocks(S), 1>>)

\* the edges of v that are no self-loops
proper_edges(S, v) ==
    SelectSeq(all_edges_range(S.edges, v), LAMBDA x : x.u # v)

\* get_move_prob(v, r, s, c, reverse, m_entries)
get_move_prob_entries(S, v, r, s, c, reverse, D) ==
    get_move_prob_of(S, v, r, s, c, reverse, D, proper_edges(S, v),
                     SumSeq([i \in 1 .. Len(proper_edges(S, v)) |->
                                S.edges[proper_edges(S, v)[i].e].w]))

\* BlockState::get_move_prob(v, r, s, c, reverse): the entries are those of
\* the move of v from b[v] to s, or to r when reverse
get_move_prob(S, v, r, s, c, reverse) ==
    [S EXCEPT !.ret =
        [NoRet EXCEPT !.sum = TermSum(
            get_move_prob_entries(S, v, r, s, c, reverse,
                Eval(get_move_entries(S, v, S.b[v],
                                      IF reverse THEN r ELSE s, {}))))]]

\* the weight of the edges from v to u that get_deg_entropy / the multigraph
\* part of sparse_entropy count: for an undirected graph only u >= v
parallel_weight(S, v, u, q) ==
    IF u < v /\ ~directed THEN 0
    ELSE SumSeq([i \in 1 .. Len(q) |->
                    IF q[i].u = u THEN S.edges[q[i].e].w ELSE 0])

\* the multigraph part of sparse_entropy for the pair v, u of m parallel edges
parallel_term(v, u, m) ==
    IF m > 1
    THEN Term(1, "lgamma_fast", <<IF u = v /\ ~directed THEN 1 ELSE 0, m>>)
    ELSE <<>>

\* get_deg_entropy(v, simple_degs_t)
get_deg_entropy(S, v) ==
    Term(S.vweight[v], "get_deg_entropy",
         <<in_degreeS(S.edges, v), out_degreeS(S.edges, v)>>)

\* the edge terms of sparse_entropy, over the edges of bg
sparse_edge_terms(S, exact, ps) ==
    Flat([i \in 1 .. Len(ps) |->
            IF ps[i] \notin S.emat THEN <<>>
            ELSE IF exact
            THEN eterm_exact(1, ps[i][1], ps[i][2], S.mrs[ps[i]])
            ELSE eterm(1, ps[i][1], ps[i][2], S.mrs[ps[i]])])

\* BlockState::sparse_entropy(multigraph, deg_entropy, exact)
sparse_entropy(S, multigraph, deg_entropy, exact) ==
    sparse_edge_terms(S, exact, PairSeq(S))
    \o Flat([i \in 1 .. Cardinality(BS(S)) |->
                vt(1, exact, S.mrp[i - 1], S.mrm[i - 1], S.wr[i - 1])])
    \o (IF deg_corr /\ deg_entropy
        THEN Flat([i \in 1 .. Cardinality(VS(S)) |-> get_deg_entropy(S, i - 1)])
        ELSE <<>>)
    \o (IF multigraph
        THEN Flat([i \in 1 .. (Cardinality(VS(S)) * Cardinality(VS(S))) |->
                     parallel_term((i - 1) \div Cardinality(VS(S)),
                                   (i - 1) % Cardinality(VS(S)),
                                   parallel_weight(S,
                                       (i - 1) \div Cardinality(VS(S)),
                                       (i - 1) % Cardinality(VS(S)),
                                       out_edges_range(S.edges,
                                           (i - 1) \div Cardinality(VS(S)), 1)))])
        ELSE <<>>)

\* the loop of dense_entropy over the edges of bg
dense_edge_terms(S, multigraph, ps) ==
    Flat([i \in 1 .. Len(ps) |->
            IF ps[i] \notin S.emat THEN <<>>
            ELSE eterm_dense(1, ps[i][1], ps[i][2], S.mrs[ps[i]],
                             S.wr[ps[i][1]], S.wr[ps[i][2]], multigraph)])

\* BlockState::dense_entropy(multigraph)
dense_entropy(S, multigraph) ==
    IF deg_corr THEN Throw("GraphException")
    ELSE Value(dense_edge_terms(S, multigraph, PairSeq(S)))

\* BlockState::entropy(dense, multigraph, deg_entropy, exact, recs) of a
\* state without edge covariates
entropy(S, dense, multigraph, deg_entropy, exact) ==
    IF ~dense THEN Value(sparse_entropy(S, multigraph, deg_entropy, exact))
    ELSE dense_entropy(S, multigraph)

\* a read-only call that returns a plain value or throws, as a state
Returned(S, ea, x) ==
    IF x.err # "none"
    THEN [S EXCEPT !.err = x.err, !.ret = [NoRet EXCEPT !.ea = ea]]
    ELSE [S EXCEPT !.ret = [NoRet EXCEPT !.ea = ea, !.inf = x.inf,
                                         !.sum = TermSum(x.val)]]

\* -------------------------------------------------- Multicanonical Sampler
\* src/src/graph/inference/multicanonical_loop.hh.  Entropies are integers,
\* _time is counted in units of 1./M, and _f and dens[] are fractions
\* [n, d] with d > 0 in lowest terms.
RECURSIVE Gcd(_, _)
Gcd(x, y) == IF y = 0 THEN x ELSE Gcd(y, x % y)

FracOf(n, d, g) == [n |-> n \div g, d |-> d \div g]
Frac(n, d) == FracOf(n, d, Gcd(IF n < 0 THEN -n ELSE n, d))
FracAdd(x, y) == Frac(x.n * y.d + y.n * x.d, x.d * y.d)
FracSub(x, y) == Frac(x.n * y.d - y.n * x.d, x.d * y.d)
FracMul(x, y) == Frac(x.n * y.n, x.d * y.d)

Bins == 0 .. (NumBins - 1)

\* MulticanonicalState::get_bin(S): the bin of S when [_S_min, _S_max) is
\* cut into M bins of equal width
get_bin(m, S) == ((S - m.S_min) * NumBins) \div (m.S_max - m.S_min)

\* the sweep before it is called: no multicanonical state
NoSweep == [pc |-> "none"]

\* no call of label_parallel_edges or label_self_loops
NoLabelling == [pc |-> "none"]

\* multicanonical_sweep without the test of the entry range
multicanonical_sweep_entry_untested(m) ==
    [m EXCEPT !.pc = "loop", !.S = m.S_state, !.nmoves = 0, !.iter = 0,
              !.i = get_bin(m, m.S_state)]

\* multicanonical_sweep, from its call to the head of its loop
multicanonical_sweep_entry(m) ==
    IF m.S_state < m.S_min \/ m.S_state >= m.S_max
    THEN [m EXCEPT !.pc = "thrown"]
    ELSE [m EXCEPT !.pc = "loop", !.S = m.S_state, !.nmoves = 0, !.iter = 0,
                   !.i = get_bin(m, m.S_state)]

\* accept = sample < exp(a) with the comparison turned round
accept_of_above(a, ln_sample) ==
    IF a.n > 0 THEN TRUE ELSE a.n < ln_sample * a.d

\* accept = sample < exp(a), for a draw given by its logarithm
accept_of(a, ln_sample) ==
    IF a.n > 0 THEN TRUE ELSE a.n > ln_sample * a.d

\* the draw of a_sample(rng) an iteration makes, by its logarithm: 0 when
\* the proposal is out of range or a > 0, where nothing is drawn
a_sample(m, nS, j, bias, ln_sample) ==
    IF nS < m.S_min \/ nS >= m.S_max THEN 0
    ELSE IF FracAdd(FracSub(m.dens[m.i], m.dens[j]), Frac(bias, 1)).n > 0
         THEN 0
         ELSE ln_sample

\* the accept / reject decision without the test of the range
accept_unbounded(m, nS, j, bias, ln_sample) ==
    IF nS < m.S_min \/ nS >= m.S_max THEN TRUE
    ELSE accept_of(FracAdd(FracSub(m.dens[m.i], m.dens[j]), Frac(bias, 1)),
                   ln_sample)

\* the accept / reject decision of an iteration
accept(m, nS, j, bias, ln_sample) ==
    IF nS < m.S_min \/ nS >= m.S_max THEN FALSE
    ELSE accept_of(FracAdd(FracSub(m.dens[m.i], m.dens[j]), Frac(bias, 1)),
                   ln_sample)

\* sweep_count that adds to dens[i] the value _f has after its refinement
sweep_count_refined_first(m, i) ==
    [m EXCEPT !.i = i,
              !.hist[i] = @ + 1,
              !.dens[i] = FracAdd(@, IF m.refine
                                     THEN FracMul(m.f, Frac(m.time, m.time + 1))
                                     ELSE m.f),
              !.time = @ + 1,
              !.f = IF m.refine THEN FracMul(@, Frac(m.time, m.time + 1)) ELSE @,
              !.iter = IF i = m.target_bin THEN @ ELSE @ + 1,
              !.pc = IF i = m.target_bin THEN "break" ELSE "loop"]

\* the end of an iteration whose current bin is i: hist, dens, _time, _f
\* and the test of the target bin
sweep_count(m, i) ==
    [m EXCEPT !.i = i,
              !.hist[i] = @ + 1,
              !.dens[i] = FracAdd(@, m.f),
              !.time = @ + 1,
              !.f = IF m.refine THEN FracMul(@, Frac(m.time, m.time + 1)) ELSE @,
              !.iter = IF i = m.target_bin THEN @ ELSE @ + 1,
              !.pc = IF i = m.target_bin THEN "break" ELSE "loop"]

\* the iteration's commit with S += dS.first outside the if (accept)
sweep_move_entropy_always(m, acc, dS, j) ==
    IF acc
    THEN sweep_count([m EXCEPT !.accept = acc, !.performed = @ + 1,
                               !.dS_performed = @ + dS,
                               !.nmoves = @ + 1, !.S = @ + dS], j)
    ELSE sweep_count([m EXCEPT !.accept = acc, !.S = @ + dS], m.i)

\* if (accept) { perform_move; nmoves++; S += dS.first; i = j; } and the
\* rest of the iteration
sweep_move(m, acc, dS, j) ==
    IF acc
    THEN sweep_count([m EXCEPT !.accept = acc, !.performed = @ + 1,
                               !.dS_performed = @ + dS,
                               !.nmoves = @ + 1, !.S = @ + dS], j)
    ELSE sweep_count([m EXCEPT !.accept = acc], m.i)

\* the iteration with hist[i]++ ahead of the test of the node weight
multicanonical_sweep_iteration_counted(m, v, dS, ln_sample) ==
    IF m.node_weight[v] = 0
    THEN [m EXCEPT !.v = v, !.sampled = @ + 1, !.iter = @ + 1,
                   !.hist[m.i] = @ + 1]
    ELSE sweep_move([m EXCEPT !.v = v, !.sampled = @ + 1, !.proposed = @ + 1,
                              !.dS = dS, !.nS = m.S + dS[1],
                              !.j = get_bin(m, m.S + dS[1]),
                              !.ln_sample = a_sample(m, m.S + dS[1],
                                                     get_bin(m, m.S + dS[1]),
                                                     dS[2], ln_sample)],
                    accept(m, m.S + dS[1], get_bin(m, m.S + dS[1]), dS[2],
                           ln_sample),
                    dS[1], get_bin(m, m.S + dS[1]))

\* the iteration whose continue does not advance the loop counter
multicanonical_sweep_iteration_uncounted(m, v, dS, ln_sample) ==
    IF m.node_weight[v] = 0
    THEN [m EXCEPT !.v = v, !.sampled = @ + 1]
    ELSE sweep_move([m EXCEPT !.v = v, !.sampled = @ + 1, !.proposed = @ + 1,
                              !.dS = dS, !.nS = m.S + dS[1],
                              !.j = get_bin(m, m.S + dS[1]),
                              !.ln_sample = a_sample(m, m.S + dS[1],
                                                     get_bin(m, m.S + dS[1]),
                                                     dS[2], ln_sample)],
                    accept(m, m.S + dS[1], get_bin(m, m.S + dS[1]), dS[2],
                           ln_sample),
                    dS[1], get_bin(m, m.S + dS[1]))

\* one iteration of the loop of multicanonical_sweep: v is the sampled
\* vertex, dS the pair returned by virtual_move_dS for the proposed move
multicanonical_sweep_iteration(m, v, dS, ln_sample) ==
    IF m.node_weight[v] = 0
    THEN [m EXCEPT !.v = v, !.sampled = @ + 1, !.iter = @ + 1]
    ELSE sweep_move([m EXCEPT !.v = v, !.sampled = @ + 1, !.proposed = @ + 1,
                              !.dS = dS, !.nS = m.S + dS[1],
                              !.j = get_bin(m, m.S + dS[1]),
                              !.ln_sample = a_sample(m, m.S + dS[1],
                                                     get_bin(m, m.S + dS[1]),
                                                     dS[2], ln_sample)],
                    accept(m, m.S + dS[1], get_bin(m, m.S + dS[1]), dS[2],
                           ln_sample),
                    dS[1], get_bin(m, m.S + dS[1]))

\* ---------------------------------------------------------- Move proposals
\* the parameter c = +infinity (std::isinf(c))
c_infinity == -1

\* uniform_sample(q, rng): the element of q the draw k picks
uniform_sample(q, k) == q[(k % Len(q)) + 1]

\* the uniform part of sample_block without if (s == null_group)
random_block_sentinel(S, rng) ==
    IF S.empty_blocks = <<>>
    THEN uniform_sample(Tail(S.candidate_blocks), rng.k1)
    ELSE uniform_sample(S.candidate_blocks, rng.k1)

\* the uniform part of sample_block ("attempt random block"); rng.k1 and
\* rng.k2 are the two draws
random_block(S, rng) ==
    IF S.empty_blocks = <<>>
    THEN uniform_sample(Tail(S.candidate_blocks), rng.k1)
    ELSE IF uniform_sample(S.candidate_blocks, rng.k1) = null_group
    THEN uniform_sample(S.empty_blocks, rng.k2)
    ELSE uniform_sample(S.candidate_blocks, rng.k1)

\* _egroups of the block t: the edges of g with an endpoint in t
egroups(S, t) ==
    SelectSeq([i \in 1 .. Len(S.edges) |-> i],
              LAMBDA e : S.b[S.edges[e].s] = t \/ S.b[S.edges[e].t] = t)

\* p_rand of sample_block for the block t of the sampled neighbour
p_rand(S, c, t) ==
    IF c > 0
    THEN Frac(c * proposal_blocks(S),
              S.mrp[t] + (IF directed THEN S.mrm[t] ELSE 0)
              + c * proposal_blocks(S))
    ELSE Frac(0, 1)

\* s = _b[target(e, _g)]; if (s == t) s = _b[source(e, _g)];
edge_block(S, t, e) ==
    IF S.b[S.edges[e].t] = t THEN S.b[S.edges[e].s] ELSE S.b[S.edges[e].t]

\* the body of if (!std::isinf(c) && !_neighbour_sampler.empty(v)), once the
\* neighbour is sampled: t is its block, p the value of p_rand, e the edge
\* _egroups.sample_edge(t) returns; rng.x is the draw of rdist_t
sample_block_local(c, rand, rng, t, p, e, s) ==
    IF c = 0 \/ rng.x.n * p.d >= p.n * rng.x.d
    THEN [c |-> c, rand |-> rand, local |-> TRUE, e |-> e, s |-> s]
    ELSE [c |-> c, rand |-> rand, local |-> FALSE, e |-> 0, s |-> rand]

\* sample_block from the sampled neighbour on
sample_block_at(S, c, rand, rng, t) ==
    sample_block_local(c, rand, rng, t, p_rand(S, c, t),
                       uniform_sample(egroups(S, t), rng.ke),
                       edge_block(S, t, uniform_sample(egroups(S, t), rng.ke)))

\* sample_block that samples a neighbour whatever c is
sample_block_always_local(S, v, c, rng) ==
    [S EXCEPT !.ret = [NoRet EXCEPT !.sample =
        IF proper_edges(S, v) # <<>>
        THEN sample_block_at(S, c, random_block(S, rng), rng,
                             S.b[uniform_sample(proper_edges(S, v), rng.ku).u])
        ELSE [c |-> c, rand |-> random_block(S, rng), local |-> FALSE,
              e |-> 0, s |-> random_block(S, rng)]]]

\* BlockState::sample_block(v, c, rng); _neighbour_sampler holds the edges
\* of v that are no self-loops
sample_block(S, v, c, rng) ==
    [S EXCEPT !.ret = [NoRet EXCEPT !.sample =
        IF c # c_infinity /\ proper_edges(S, v) # <<>>
        THEN sample_block_at(S, c, random_block(S, rng), rng,
                             S.b[uniform_sample(proper_edges(S, v), rng.ku).u])
        ELSE [c |-> c, rand |-> random_block(S, rng), local |-> FALSE,
              e |-> 0, s |-> random_block(S, rng)]]]

\* ---------------------------------------------------- edge labelling
\* src/src/graph/stats/graph_parallel.hh.  P is the run: [fn, mark_only,
\* label |-> the property map that is written, pos |-> per vertex, the
\* out-edges its loop body has handled, vset, self_loops and n |-> the
\* locals of each body, writers |-> per edge, the vertices whose body stored
\* its label, pc].
\* a store of x into the label of the edge e by the body of v.  Stores of
\* two bodies into one label are not ordered by any synchronisation; where
\* they occur they store the same value, which is what the label then holds
put(P, e, x, v) == [P EXCEPT !.label[e] = x, !.writers[e] = @ \cup {v}]

\* the end of one iteration of the for loop of the body of v; the scratch
\* maps are cleared after the last one
next_edge(P, E, v) ==
    IF P.pos[v] + 1 = Len(out_edges_range(E, v, 1))
    THEN [P EXCEPT !.pos[v] = @ + 1,
                   !.vset[v] = [u \in DOMAIN P.pos |-> 0],
                   !.self_loops[v] = {}]
    ELSE [P EXCEPT !.pos[v] = @ + 1]

\* the iteration of label_parallel_edges for an edge e to u that is not
\* skipped: the first edge to u is remembered, a later one is labelled
label_parallel_edge(P, v, e, u) ==
    IF P.vset[v][u] = 0 THEN [P EXCEPT !.vset[v][u] = e]
    ELSE IF P.mark_only THEN put(P, e, 1, v)
    ELSE [put(P, e, P.label[P.vset[v][u]] + 1, v) EXCEPT !.vset[v][u] = e]

\* one iteration of the body of label_parallel_edges for the vertex v, on
\* its out-edge [e, u]
label_parallel_edges_at(P, E, v, e, u) ==
    IF ~directed /\ u < v THEN next_edge(P, E, v)
    ELSE IF u = v /\ e \in P.self_loops[v] THEN next_edge(P, E, v)
    ELSE next_edge(label_parallel_edge(
                       IF u = v THEN [P EXCEPT !.self_loops[v] = @ \cup {e}]
                       ELSE P, v, e, u), E, v)

\* one iteration of the body of label_self_loops for the vertex v, on its
\* out-edge [e, u]
label_self_loops_at(P, E, v, e, u) ==
    IF u = v
    THEN next_edge([put(P, e, IF P.mark_only THEN 1 ELSE P.n[v], v)
                        EXCEPT !.n[v] = IF P.mark_only THEN @ ELSE @ + 1],
                   E, v)
    ELSE next_edge(put(P, e, 0, v), E, v)

\* one iteration of the body of the vertex v
label_body(P, E, v) ==
    IF P.fn = "label_parallel_edges"
    THEN label_parallel_edges_at(P, E, v,
             out_edges_range(E, v, 1)[P.pos[v] + 1].e,
             out_edges_range(E, v, 1)[P.pos[v] + 1].u)
    ELSE label_self_loops_at(P, E, v,
             out_edges_range(E, v, 1)[P.pos[v] + 1].e,
             out_edges_range(E, v, 1)[P.pos[v] + 1].u)

\* the body of v has handled all its out-edges
body_done(P, E, v) == P.pos[v] = Len(out_edges_range(E, v, 1))

\* the loop run by one thread: the bodies one after the other, in the
\* order of the vertices, from v on
RECURSIVE serial_loop(_, _, _)
serial_loop(P, E, v) ==
    IF v \notin DOMAIN P.pos THEN P
    ELSE IF body_done(P, E, v) THEN serial_loop(P, E, v + 1)
    ELSE serial_loop(label_body(P, E, v), E, v)

\* ------------------------------------------------------------ construction
\* the pool loop of the constructor, over the blocks R in increasing order
RECURSIVE build_pools(_, _, _)
build_pools(w, R, P) ==
    IF R = {} THEN P
    ELSE LET r == Least(R)
             P1 == IF w[r] = 0
                   THEN LET e == add_element(P.empty_blocks, P.empty_pos, r)
                        IN  [P EXCEPT !.empty_blocks = e.vec, !.empty_pos = e.pos]
                   ELSE LET c == add_element(P.candidate_blocks, P.candidate_pos, r)
                        IN  [P EXCEPT !.candidate_blocks = c.vec,
                                      !.candidate_pos = c.pos]
         IN  build_pools(w, R \ {r}, P1)

\* the constructor without _candidate_blocks.push_back(null_group)
BlockState_init_bare(w, R) ==
    build_pools(w, R, [empty_blocks |-> <<>>, empty_pos |-> [r \in R |-> 0],
                       candidate_blocks |-> <<>>,
                       candidate_pos |-> [r \in R |-> 0]])

\* the pools as the constructor leaves them: candidate_blocks starts with
\* null_group
BlockState_init(w, R) ==
    build_pools(w, R, [empty_blocks |-> <<>>, empty_pos |-> [r \in R |-> 0],
                       candidate_blocks |-> <<null_group>>,
                       candidate_pos |-> [r \in R |-> 0]])

\* the degree sums of the block graph the caller hands to the constructor
InitDegs(m, R) ==
    LET row(r) == SumFun([s \in R |-> m[<<r, s>>]])
        col(r) == SumFun([s \in R |-> m[<<s, r>>]])
    IN  IF directed
        THEN [mrp |-> [r \in R |-> row(r)], mrm |-> [r \in R |-> col(r)]]
        ELSE [mrp |-> [r \in R |-> row(r) + col(r)],
              mrm |-> [r \in R |-> row(r) + col(r)]]

\* the coupled state of a hierarchy: its vertices are the blocks of this
\* level, a nonempty block has weight 1, and its partition is bclabel
InitCoupled(w, lab) ==
    LET cvw == [r \in DOMAIN w |-> IF w[r] > 0 THEN 1 ELSE 0]
        cwr == node_counts(lab, cvw, Labels)
        P == BlockState_init(cwr, Labels)
    IN  [vweight |-> cvw, b |-> lab, wr |-> cwr,
         empty_blocks |-> P.empty_blocks, empty_pos |-> P.empty_pos,
         candidate_blocks |-> P.candidate_blocks,
         candidate_pos |-> P.candidate_pos]

\* ------------------------------------------------------------------ inputs
\* the graph: a path 0 - 1 - ... with the first edge doubled by a parallel
\* edge in the opposite direction, and a self-loop on the last vertex
InputEdges(weighted) ==
    [i \in 1 .. (NumV - 1) |->
        [s |-> i - 1, t |-> i, w |-> IF weighted /\ i = 1 THEN 2 ELSE 1]]
    \o << [s |-> 1, t |-> 0, w |-> 1],
          [s |-> NumV - 1, t |-> NumV - 1, w |-> 1] >>

\* vertex weights: all 1 when unweighted, else 0, 2, 1, 1, ...
InputVWeight(weighted) ==
    [v \in V |-> IF ~weighted THEN 1 ELSE IF v = 0 THEN 0 ELSE IF v = 1 THEN 2 ELSE 1]

InputPartitions == { [v \in V |-> 0], [v \in V |-> v % NumB] }

InputLabels == { [r \in Blocks |-> 0], [r \in Blocks |-> r % 2] }

NoCall == [op |-> "init", v |-> null_group, r |-> null_group, nr |-> null_group,
           nv |-> 0, nb |-> 0]

NoRt == [phase |-> 0, v |-> null_group, r |-> null_group, nr |-> null_group,
         core |-> <<>>]

\* a graph without edge covariates: _rec_types is empty and so is every
\* _brec[me]
NoRecs ==
    /\ rec_types = <<>> /\ brec = [p \in DOMAIN mrs |-> <<>>]
    /\ ignore_degrees = [v \in DOMAIN vweight |-> 0]
    /\ brecsum = [r \in DOMAIN wr |-> 0]

\* the state after construction, _deg_corr left open
InitState ==
    /\ directed \in BOOLEAN
    /\ is_weighted \in BOOLEAN
    /\ coupled \in BOOLEAN
    /\ edges = InputEdges(is_weighted)
    /\ vweight = InputVWeight(is_weighted)
    /\ b \in InputPartitions
    /\ bclabel \in InputLabels
    /\ wr = node_counts(b, vweight, Blocks)
    /\ mrs = edge_counts(edges, b, Blocks)
    /\ emat = {p \in Blocks \X Blocks : mrs[p] # 0}
    /\ mrp = InitDegs(mrs, Blocks).mrp
    /\ mrm = InitDegs(mrs, Blocks).mrm
    /\ LET P == BlockState_init(wr, Blocks)
       IN  /\ empty_blocks = P.empty_blocks
           /\ empty_pos = P.empty_pos
           /\ candidate_blocks = P.candidate_blocks
           /\ candidate_pos = P.candidate_pos
    /\ merge_map = [v \in V |-> v]
    /\ cstate = InitCoupled(wr, bclabel)
    /\ fault = FALSE
    /\ in_part = V
    /\ err = "none"
    /\ last = NoCall
    /\ rt = NoRt
    /\ pstats = FALSE
    /\ ret = NoRet
    /\ queries = 0

\* the mutation operations never read _deg_corr
Init ==
    deg_corr = FALSE /\ InitState /\ mc = NoSweep /\ par = NoLabelling /\ NoRecs

\* the state the read-only calls are made on
InitQuery ==
    /\ deg_corr \in BOOLEAN /\ InitState /\ mc = NoSweep /\ par = NoLabelling
    /\ NoRecs

\* ----------------------------------------------------------------- actions
\* the part of the state a round trip is compared on
Core(S) == [b |-> S.b, wr |-> S.wr, mrs |-> S.mrs, mrp |-> S.mrp, mrm |-> S.mrm]

Call(op, v, r, nr) == [NoCall EXCEPT !.op = op, !.v = v, !.r = r, !.nr = nr]

\* a bulk call is recorded by the lengths of its two arrays
BulkCall(op, vs, rs) == [NoCall EXCEPT !.op = op, !.nv = Len(vs), !.nb = Len(rs)]

\* the vertices that share an edge with a vertex of X, X itself left out
Neighbours(X) ==
    UNION {Ends(all_edges_range(edges, v)) : v \in X} \ X

\* The caller's protocol.  remove_vertex leaves the counts without the edges
\* of v until v is added again, so a vertex is taken out, put back or moved
\* only while its neighbours outside the call are in the partition; edges
\* inside a batch are the business of the bulk variants.
Settled(X) == Neighbours(X) \subseteq in_part

\* add_vertex / remove_vertex do not tell the coupled state, whose block
\* weights can therefore drift upwards without limit: exploration stops at
\* MaxCoupled
CoupledInBound == \A c \in Labels : cstate.wr[c] <= MaxCoupled

\* move_vertex(v, nr): the caller passes r = b[v]
MoveVertexTo(v, r, nr, S2) ==
    /\ Commit(S2)
    /\ last' = Call("move_vertex", v, r, nr)
    /\ rt' = IF rt.phase = 1 /\ v = rt.v /\ r = rt.nr /\ nr = rt.r
             THEN [rt EXCEPT !.phase = 2]
             ELSE IF r # nr /\ S2.err = "none"
             THEN [phase |-> 1, v |-> v, r |-> r, nr |-> nr, core |-> Core(St)]
             ELSE NoRt
    /\ UNCHANGED in_part

MoveVertex(v, nr) ==
    /\ v \in in_part
    /\ Settled({v})
    /\ CoupledInBound
    /\ MoveVertexTo(v, b[v], nr, Eval(move_vertex(St, v, b[v], nr)))

\* remove_vertex(v): v leaves the partition, b[v] keeps its value
RemoveVertex(v) ==
    /\ v \in in_part
    /\ Settled({v})
    /\ Commit(Eval(remove_vertex(St, v, b[v], {})))
    /\ last' = Call("remove_vertex", v, b[v], null_group)
    /\ in_part' = in_part \ {v}
    /\ rt' = NoRt

\* add_vertex(v, r) of a vertex that is not in the partition
AddVertex(v, r) ==
    /\ v \notin in_part
    /\ Settled({v})
    /\ Commit(Eval(add_vertex(St, v, r, {})))
    /\ last' = Call("add_vertex", v, null_group, r)
    /\ in_part' = in_part \cup {v}
    /\ rt' = NoRt

\* the vertex arrays of the bulk calls: increasing, at most MaxBatch long
Batches(X) ==
    {vs \in UNION {[1 .. n -> X] : n \in 1 .. MaxBatch} :
        \A i \in 1 .. (Len(vs) - 1) : vs[i] < vs[i + 1]}

\* the block arrays handed along with vs: as long as vs, or one shorter
BlockArrays(vs) == [1 .. Len(vs) -> Blocks] \cup [1 .. (Len(vs) - 1) -> Blocks]

\* the argument pairs of add_vertices and move_vertices
BulkArgs == UNION {{<<vs, rs>> : rs \in BlockArrays(vs)} : vs \in Batches(V)}

RemoveVertices(vs) ==
    /\ Range(vs) \subseteq in_part
    /\ Settled(Range(vs))
    /\ Commit(Eval(remove_vertices(St, vs)))
    /\ last' = BulkCall("remove_vertices", vs, vs)
    /\ in_part' = in_part \ Range(vs)
    /\ rt' = NoRt

AddVerticesTo(vs, rs, S2) ==
    /\ Commit(S2)
    /\ in_part' = IF S2.err = "none" THEN in_part \cup Range(vs) ELSE in_part
    /\ last' = BulkCall("add_vertices", vs, rs)
    /\ rt' = NoRt

AddVertices(vs, rs) ==
    /\ Range(vs) \cap in_part = {}
    /\ Settled(Range(vs))
    /\ AddVerticesTo(vs, rs, Eval(add_vertices(St, vs, rs)))

MoveVertices(vs, rs) ==
    /\ Range(vs) \subseteq in_part
    /\ \A i \in 1 .. Len(vs) : Settled({vs[i]})
    /\ CoupledInBound
    /\ Commit(Eval(move_vertices_py(St, vs, rs)))
    /\ last' = BulkCall("move_vertices", vs, rs)
    /\ UNCHANGED in_part
    /\ rt' = NoRt

\* merge_vertices(u, v) of two vertices of one block
MergeVertices(u, v) ==
    /\ u \in in_part /\ v \in in_part
    /\ b[u] = b[v]
    /\ Commit(Eval(merge_vertices(St, u, v)))
    /\ last' = Call("merge_vertices", u, b[u], v)
    /\ UNCHANGED in_part
    /\ rt' = NoRt

\* ---------------------------------------------------------- read-only calls
\* an entropy configuration; dl switches the three description-length terms
Args(adjacency, dense, exact, multigraph, dl) ==
    [adjacency |-> adjacency, dense |-> dense, exact |-> exact,
     multigraph |-> multigraph, partition_dl |-> dl, degree_dl |-> dl,
     edges_dl |-> dl]

\* the configurations explored: sparse exact, sparse asymptotic, dense,
\* dense multigraph, dense without the adjacency term, sparse exact with the
\* description-length terms
EntropyArgs ==
    { Args(TRUE, FALSE, TRUE, FALSE, FALSE), Args(TRUE, FALSE, FALSE, FALSE, FALSE),
      Args(TRUE, TRUE, FALSE, FALSE, FALSE), Args(TRUE, TRUE, FALSE, TRUE, FALSE),
      Args(FALSE, TRUE, FALSE, FALSE, TRUE), Args(TRUE, FALSE, TRUE, FALSE, TRUE) }

\* the values of the parameter c of get_move_prob
CValues == {0, 1}

\* a read-only call returns: Q is the state it leaves
Query(Q, op, v, r, nr) ==
    /\ queries < MaxQueries
    /\ Commit([Q EXCEPT !.queries = queries + 1])
    /\ last' = Call(op, v, r, nr)
    /\ UNCHANGED <<in_part, rt>>

\* virtual_move(v, r, nr, ea): the caller passes r = b[v]
VirtualMove(v, nr, ea) ==
    /\ v \in in_part
    /\ Query(Eval(virtual_move(St, v, b[v], nr, ea)), "virtual_move", v, b[v], nr)

\* get_move_prob(v, b[v], x, c, false), or get_move_prob(v, x, b[v], c, true)
\* for the probability of the move back
GetMoveProb(v, x, c, reverse) ==
    /\ v \in in_part
    /\ Query(Eval(get_move_prob(St, v, IF reverse THEN x ELSE b[v],
                                IF reverse THEN b[v] ELSE x, c, reverse)),
             "get_move_prob", v, IF reverse THEN x ELSE b[v],
             IF reverse THEN b[v] ELSE x)

\* virtual_move_dense(v, r, nr, multigraph) called directly
VirtualMoveDense(v, nr, multigraph) ==
    /\ v \in in_part
    /\ Query(Returned(St, Args(TRUE, TRUE, FALSE, multigraph, FALSE),
                      virtual_move_dense(St, v, b[v], nr, multigraph)),
             "virtual_move_dense", v, b[v], nr)

\* dense_entropy(multigraph) called directly
DenseEntropy(multigraph) ==
    Query(Returned(St, Args(TRUE, TRUE, FALSE, multigraph, FALSE),
                   dense_entropy(St, multigraph)),
          "dense_entropy", null_group, null_group, null_group)

\* entropy(ea.dense, ea.multigraph, true, ea.exact, false)
Entropy(ea) ==
    Query(Returned(St, ea, entropy(St, ea.dense, ea.multigraph, TRUE, ea.exact)),
          "entropy", null_group, null_group, null_group)

NextMove == \E v \in V, nr \in Blocks : MoveVertex(v, nr)

NextVertex ==
    \/ NextMove
    \/ \E v \in V : RemoveVertex(v)
    \/ \E v \in V, r \in Blocks : AddVertex(v, r)

\* the template move_vertices(v, nr), called on the arrays themselves
MoveVerticesVec(vs, rs) ==
    /\ Range(vs) \subseteq in_part
    /\ \A i \in 1 .. Len(vs) : Settled({vs[i]})
    /\ CoupledInBound
    /\ Commit(Eval(move_vertices(St, vs, rs)))
    /\ last' = BulkCall("move_vertices_vec", vs, rs)
    /\ UNCHANGED in_part
    /\ rt' = NoRt

NextBulk ==
    \/ NextVertex
    \/ \E vs \in Batches(V) : RemoveVertices(vs)
    \/ \E a \in BulkArgs : AddVertices(a[1], a[2])
    \/ \E a \in BulkArgs : MoveVertices(a[1], a[2])

NextArrays ==
    \/ NextBulk
    \/ \E a \in BulkArgs : MoveVerticesVec(a[1], a[2])

Next ==
    \/ NextBulk
    \/ \E u \in V, v \in V : MergeVertices(u, v)

\* the targets of a virtual move: a block, or null_group for a removal
Targets == Blocks \cup {null_group}

NextQuery ==
    \/ NextMove
    \/ \E v \in V, nr \in Targets, ea \in EntropyArgs : VirtualMove(v, nr, ea)
    \/ \E v \in V, x \in Blocks, c \in CValues, reverse \in BOOLEAN :
           GetMoveProb(v, x, c, reverse)

NextEntropy ==
    \/ NextQuery
    \/ \E v \in V, nr \in Targets, mg \in BOOLEAN : VirtualMoveDense(v, nr, mg)
    \/ \E mg \in BOOLEAN : DenseEntropy(mg)
    \/ \E ea \in EntropyArgs : Entropy(ea)

\* sequences of move_vertex calls only
SpecMove == Init /\ [][NextMove]_vars

\* single-vertex and bulk add / remove / move
SpecBulk == Init /\ [][NextBulk]_vars

\* the bulk operations, with both overloads of move_vertices
SpecArrays == Init /\ [][NextArrays]_vars

\* every mutation operation
Spec == Init /\ [][Next]_vars

\* moves, with virtual_move and get_move_prob calls in between
SpecQuery == InitQuery /\ [][NextQuery]_vars

\* moves, with every read-only entropy call in between
SpecEntropy == InitQuery /\ [][NextEntropy]_vars

\* ============================================================== properties
\* the pools and the Block Edge Index, the rest of the partition state
Pools == <<empty_blocks, empty_pos, candidate_blocks, candidate_pos>>

\* the number of times x occurs in the sequence q
Count(q, x) == Cardinality({i \in 1 .. Len(q) : q[i] = x})

\* a move_vertex call with r # nr has just returned without error
Moved == last.op = "move_vertex" /\ last.r # last.nr /\ err = "none"

\* C1: after any sequence of move_vertex calls every wr[r] is the sum of
\* vweight[v] over the vertices v with b[v] = r (check_node_counts holds).
NodeCountsKept == check_node_counts(St)

\* a vertex of positive weight was moved and left its block empty
NodeCountsMoved == Moved /\ vweight[last.v] > 0 /\ wr[last.r] = 0

\* C2 as stated: the block weights add up to the weight of all vertices.
WeightOfAllVertices == SumFun(wr) = SumFun(vweight)

\* C2, amended: the block weights add up to the weight of the vertices that
\* are in the partition (added and not removed since).
WeightConserved ==
    SumFun(wr) = SumFun([v \in V |-> IF v \in in_part THEN vweight[v] ELSE 0])

\* merge_vertices has moved a positive weight from u to v
WeightMerged ==
    /\ last.op = "merge_vertices" /\ err = "none" /\ last.v # last.nr
    /\ vweight[last.nr] > InputVWeight(is_weighted)[last.nr]

\* C3: after any sequence of move_vertex calls the stored mrs of every block
\* pair is the recomputed sum of the edge weights between the two blocks,
\* and a pair with a nonzero sum has an entry in the Block Edge Index
\* (check_edge_counts holds).
EdgeCountsKept ==
    /\ check_edge_counts(St)
    /\ \A p \in PairsOf(St) :
           get_beprop(St, p[1], p[2]) = edge_counts(edges, b, Blocks)[Key(p[1], p[2])]

\* a move has changed the block edge counts
EdgeCountsMoved == Moved /\ rt.phase = 1 /\ mrs # rt.core.mrs

\* the sums of mrs along a row and along a column of the block matrix
RowSum(r) == SumFun([s \in Blocks |-> get_beprop(St, r, s)])
ColSum(r) == SumFun([s \in Blocks |-> get_beprop(St, s, r)])

\* C4 as stated: mrp[r] is the row sum and mrm[r] the column sum of mrs.
DegreesAreRowSums == \A r \in Blocks : mrp[r] = RowSum(r) /\ mrm[r] = ColSum(r)

\* C4, amended: for a directed graph mrp[r] is the row sum and mrm[r] the
\* column sum of mrs; for an undirected graph mrp[r] = mrm[r] is the row sum
\* with the edges inside block r counted twice.
DegreesKept ==
    \A r \in Blocks :
        IF directed
        THEN mrp[r] = RowSum(r) /\ mrm[r] = ColSum(r)
        ELSE mrp[r] = RowSum(r) + get_beprop(St, r, r) /\ mrm[r] = mrp[r]

\* a batch was added to an undirected graph and left edges inside a block
DegreesAdded ==
    /\ ~directed /\ last.op = "add_vertices" /\ err = "none"
    /\ \E r \in Blocks : get_beprop(St, r, r) > 0

\* C5: a block is in empty_blocks iff its weight is 0 and in candidate_blocks
\* iff its weight is positive; it is in exactly one of the two, once.
PoolsKept ==
    \A r \in Blocks :
        /\ Count(empty_blocks, r) = (IF wr[r] = 0 THEN 1 ELSE 0)
        /\ Count(candidate_blocks, r) = (IF wr[r] > 0 THEN 1 ELSE 0)
        /\ Count(empty_blocks, r) + Count(candidate_blocks, r) = 1

\* a vertex of weight zero was moved into a block that stays empty
PoolsZeroMoved == Moved /\ vweight[last.v] = 0 /\ wr[last.nr] = 0

\* C6: the first element of candidate_blocks is always null_group.
SentinelKept == Len(candidate_blocks) >= 1 /\ candidate_blocks[1] = null_group

\* the last nonempty block was swap-removed from candidate_blocks
SentinelAlone ==
    /\ last.op \in {"remove_vertex", "remove_vertices"}
    /\ candidate_blocks = <<null_group>>

\* C7: the move back right after a successful move succeeds and restores b,
\* wr, mrs, mrp and mrm.
RoundTripRestores == rt.phase = 2 => (err = "none" /\ Core(St) = rt.core)

\* C8: move_vertex with r = nr changes nothing (b, wr, mrs, mrp, mrm, the
\* Block Edge Index, the pools, bclabel, the coupled state) and raises no
\* error.
SameBlockMoveIsNoOp ==
    [][(last'.op = "move_vertex" /\ last'.r = last'.nr)
        => /\ UNCHANGED <<b, wr, mrs, mrp, mrm, emat, Pools, bclabel, cstate,
                          edges, vweight>>
           /\ err' = "none"]_vars

\* a vertex, alone in its block and of positive weight, was moved to that block
SameBlockMoved ==
    /\ last.op = "move_vertex" /\ last.r = last.nr
    /\ vweight[last.v] > 0 /\ wr[last.r] = vweight[last.v]

PathVertices == 0 .. 3

PathEdges == << [s |-> 0, t |-> 1, w |-> 1], [s |-> 1, t |-> 2, w |-> 1],
                [s |-> 2, t |-> 3, w |-> 1] >>

PathPartition == [v \in PathVertices |-> IF v <= 1 THEN 0 ELSE 1]

InitPath ==
    /\ directed = FALSE
    /\ is_weighted = FALSE
    /\ coupled \in BOOLEAN
    /\ edges = PathEdges
    /\ vweight = [v \in PathVertices |-> 1]
    /\ b = PathPartition
    /\ bclabel \in InputLabels
    /\ wr = node_counts(b, vweight, Blocks)
    /\ mrs = edge_counts(edges, b, Blocks)
    /\ emat = {p \in Blocks \X Blocks : mrs[p] # 0}
    /\ mrp = InitDegs(mrs, Blocks).mrp
    /\ mrm = InitDegs(mrs, Blocks).mrm
    /\ LET P == BlockState_init(wr, Blocks)
       IN  /\ empty_blocks = P.empty_blocks
           /\ empty_pos = P.empty_pos
           /\ candidate_blocks = P.candidate_blocks
           /\ candidate_pos = P.candidate_pos
    /\ merge_map = [v \in PathVertices |-> v]
    /\ cstate = InitCoupled(wr, bclabel)
    /\ fault = FALSE
    /\ in_part = PathVertices
    /\ err = "none"
    /\ last = NoCall
    /\ rt = NoRt
    /\ deg_corr = FALSE
    /\ pstats = FALSE
    /\ ret = NoRet
    /\ queries = 0
    /\ mc = NoSweep /\ par = NoLabelling
    /\ NoRecs

NextPath == \E v \in PathVertices, nr \in Blocks : MoveVertex(v, nr)

\* sequences of move_vertex calls on the path graph
SpecPath == InitPath /\ [][NextPath]_vars

\* ------------------------------------------- the three-block scenario
\* three vertices and three blocks: a virtual move from r to nr meets a
\* third block
Three == 0 .. 2

\* the graph 0 - 1 - 2 with the first edge doubled by a parallel edge in the
\* opposite direction and a self-loop on vertex 2
ThreeEdges(weighted) ==
    << [s |-> 0, t |-> 1, w |-> IF weighted THEN 2 ELSE 1],
       [s |-> 1, t |-> 2, w |-> 1], [s |-> 1, t |-> 0, w |-> 1],
       [s |-> 2, t |-> 2, w |-> 1] >>

\* the state after construction from any partition of the three vertices
InitThree ==
    /\ directed \in BOOLEAN
    /\ is_weighted \in BOOLEAN
    /\ coupled \in BOOLEAN
    /\ deg_corr \in BOOLEAN
    /\ edges = ThreeEdges(is_weighted)
    /\ vweight = [v \in Three |-> IF is_weighted THEN (v + 2) % 3 ELSE 1]
    /\ b \in [Three -> Three]
    /\ bclabel = [r \in Three |-> 0]
    /\ wr = node_counts(b, vweight, Three)
    /\ mrs = edge_counts(edges, b, Three)
    /\ emat = {p \in Three \X Three : mrs[p] # 0}
    /\ mrp = InitDegs(mrs, Three).mrp
    /\ mrm = InitDegs(mrs, Three).mrm
    /\ LET P == BlockState_init(wr, Three)
       IN  /\ empty_blocks = P.empty_blocks
           /\ empty_pos = P.empty_pos
           /\ candidate_blocks = P.candidate_blocks
           /\ candidate_pos = P.candidate_pos
    /\ merge_map = [v \in Three |-> v]
    /\ cstate = InitCoupled(wr, bclabel)
    /\ fault = FALSE
    /\ in_part = Three
    /\ err = "none"
    /\ last = NoCall
    /\ rt = NoRt
    /\ pstats = FALSE
    /\ ret = NoRet
    /\ queries = 0
    /\ mc = NoSweep /\ par = NoLabelling
    /\ NoRecs

NextThree ==
    \E v \in Three, nr \in Three, ea \in EntropyArgs : VirtualMove(v, nr, ea)

\* one virtual_move call on a freshly constructed state
SpecThree == InitThree /\ [][NextThree]_vars

\* move_vertex(1, 0, 1) is returning from the split partition of the path
PathMove ==
    /\ b = PathPartition
    /\ last'.op = "move_vertex" /\ last'.v = 1 /\ last'.nr = 1
    /\ err' = "none"

\* C11 as stated: on the path 0 - 1 - 2 - 3 with b = [0, 0, 1, 1] the state
\* has mrs[0,1] = 1, wr = [2, 2], and after move_vertex(1, 0, 1) it has
\* mrs[0,1] = 0, a larger mrs[1,1], wr[0] = 1 and wr[1] = 3
PathMoveClearsPair ==
    [][PathMove =>
        /\ mrs[<<0, 1>>] = 1 /\ wr[0] = 2 /\ wr[1] = 2
        /\ mrs'[<<0, 1>>] = 0
        /\ mrs'[<<1, 1>>] > mrs[<<1, 1>>]
        /\ wr'[0] = 1 /\ wr'[1] = 3]_vars

\* C11, amended: before the move mrs[0,1] = 1, mrs[0,0] = 1, mrs[1,1] = 1 and
\* wr = [2, 2]; after move_vertex(1, 0, 1) the edge (0,1) is the one that
\* crosses, so mrs[0,1] = 1 still, mrs[0,0] = 0, mrs[1,1] = 2, wr[0] = 1 and
\* wr[1] = 3
PathMoveCounts ==
    [][PathMove =>
        /\ mrs[<<0, 1>>] = 1 /\ mrs[<<0, 0>>] = 1 /\ mrs[<<1, 1>>] = 1
        /\ wr[0] = 2 /\ wr[1] = 2
        /\ mrs'[<<0, 1>>] = 1 /\ mrs'[<<0, 0>>] = 0 /\ mrs'[<<1, 1>>] = 2
        /\ wr'[0] = 1 /\ wr'[1] = 3]_vars

\* vertex 1 of the path has just been moved out of the split partition
PathMoved ==
    /\ Moved /\ last.v = 1 /\ last.r = 0 /\ last.nr = 1
    /\ rt.phase = 1 /\ rt.core.b = PathPartition
    /\ b = [PathPartition EXCEPT ![1] = 1]

\* C12: virtual_move(v, r, nr, ea) returns 0 whenever r = nr and +infinity
\* whenever the labels forbid the move (bclabel[r] # bclabel[nr] and
\* wr[nr] # 0), whatever the entropy configuration
VirtualMoveEarlyReturns ==
    [][last'.op = "virtual_move" =>
        /\ last'.r = last'.nr =>
              err' = "none" /\ ~ret'.inf /\ ret'.sum = <<>>
        /\ (/\ last'.nr \in Blocks
            /\ bclabel[last'.r] # bclabel[last'.nr]
            /\ wr[last'.nr] # 0) =>
              err' = "none" /\ ret'.inf]_vars

\* a virtual move that the labels forbid has returned +infinity under the
\* dense configuration of a degree-corrected state
VirtualMoveForbidden ==
    /\ last.op = "virtual_move" /\ last.r # last.nr
    /\ ret.inf /\ ret.ea.dense /\ ret.ea.adjacency /\ deg_corr

entropy_of(S, ea) == entropy(S, ea.dense, ea.multigraph, TRUE, ea.exact).val

\* entropy() after the move of the last call is committed, minus entropy()
\* before it
EntropyDifference ==
    TermSum(entropy_of(move_vertex(St, last.v, last.r, last.nr), ret.ea)
            \o Neg(entropy_of(St, ret.ea)))

\* virtual_move has returned the value of a legal move between two blocks
\* under an adjacency-only configuration (sparse exact, sparse asymptotic, or
\* dense on a state that is not degree-corrected)
Evaluated ==
    /\ last.op = "virtual_move" /\ err = "none" /\ ~ret.inf
    /\ last.r # last.nr /\ last.nr \in Blocks
    /\ ret.ea.adjacency /\ ~ret.ea.partition_dl

\* the move of the last call empties its block or fills an empty one, and
\* not both, in a state with a coupled state
LevelChanged ==
    /\ coupled /\ vweight[last.v] > 0
    /\ (wr[last.r] = vweight[last.v]) # (wr[last.nr] = 0)

\* C14 as stated: for every vertex v, its block r and every legal target nr,
\* virtual_move(v, r, nr, cfg) equals entropy() after move_vertex(v, r, nr)
\* minus entropy() before it, for the sparse exact, sparse asymptotic and
\* dense configurations
VirtualMoveIsDifference == Evaluated => ret.sum = EntropyDifference

\* C14, amended: the same, unless the state has a coupled state and the move
\* empties r or fills nr (and not both), when virtual_move adds the virtual
\* move of that block in the coupled state on top of the difference
VirtualMoveIsLevelDifference ==
    (Evaluated /\ ~LevelChanged) => ret.sum = EntropyDifference

\* a dense virtual move between two occupied blocks of a directed graph has
\* been evaluated, v having edges to a third block, and is not 0
DenseEvaluated ==
    /\ Evaluated /\ ~LevelChanged /\ ret.ea.dense /\ directed
    /\ ret.sum # <<>> /\ wr[last.nr] > 0
    /\ \E s \in DOMAIN wr \ {last.r, last.nr} :
          get_beprop(St, last.r, s) > 0 /\ get_beprop(St, s, last.nr) > 0

\* the last call is a use of the dense evaluation: virtual_move_dense,
\* dense_entropy, or virtual_move / entropy under a dense configuration
DenseUse ==
    \/ last.op \in {"virtual_move_dense", "dense_entropy"}
    \/ last.op \in {"virtual_move", "entropy"} /\ ret.ea.dense

\* C15 as stated: on a degree-corrected state every use of the dense
\* evaluation raises a configuration error instead of returning a value
DenseUseThrows == (deg_corr /\ DenseUse) => err = "GraphException"

\* the last call, a virtual_move, got as far as its adjacency part: r # nr
\* and the labels allow the move
ReachedAdjacency ==
    /\ ret.ea.adjacency /\ last.r # last.nr
    /\ last.nr \in Blocks =>
          (bclabel[last.r] = bclabel[last.nr] \/ wr[last.nr] = 0)

\* C15, amended: on a degree-corrected state virtual_move_dense,
\* dense_entropy and entropy with dense = true always raise the error;
\* virtual_move under a dense configuration raises it exactly when the
\* adjacency term is on, r # nr and the labels allow the move, and otherwise
\* returns (0, +infinity, or the remaining terms)
DenseEvaluationThrows ==
    (deg_corr /\ DenseUse) =>
        (err = "GraphException" <=>
            (last.op = "virtual_move" => ReachedAdjacency))

\* virtual_move has raised the error under a dense configuration
DenseRefused ==
    /\ deg_corr /\ last.op = "virtual_move" /\ ret.ea.dense
    /\ err = "GraphException"

\* C16: with a coupled state attached, whenever an operation makes wr[r] go
\* from 0 to nonzero or from nonzero to 0, the block r is added to or taken
\* out of the coupled state by that operation: r has a weight there exactly
\* when it is occupied
CoupledFollowsOccupancy ==
    [][coupled =>
        \A r \in Blocks :
            (wr[r] = 0) # (wr'[r] = 0) =>
                ((wr'[r] = 0) <=> (cstate'.vweight[r] = 0))]_vars

\* virtual_move has got past its early returns on a vertex of positive
\* weight of a state with a coupled state
CoupledEvaluated ==
    /\ last.op = "virtual_move" /\ err = "none" /\ ~ret.inf
    /\ last.r # last.nr
    /\ coupled /\ vweight[last.v] > 0

\* the move of the last call would vacate r / occupy nr
Vacates == wr[last.r] = vweight[last.v]
Occupies == last.nr \in Blocks /\ wr[last.nr] = 0

\* the value returned holds the parent-level delta of taking the block r out
\* / of putting the block nr in
RemovalAdded ==
    [f |-> "coupled_virtual_move", a |-> <<last.r, bclabel[last.r], null_group>>]
        \in DOMAIN ret.sum
InsertionAdded ==
    [f |-> "coupled_virtual_move", a |-> <<last.nr, null_group, bclabel[last.r]>>]
        \in DOMAIN ret.sum

\* C17 as stated: virtual_move adds the parent-level delta for removing r
\* whenever the move would vacate r and the one for inserting nr whenever it
\* would occupy nr, also when both happen in the same move
CoupledDeltasAdded ==
    CoupledEvaluated =>
        /\ Vacates => RemovalAdded
        /\ Occupies => InsertionAdded

\* C17, amended: virtual_move adds the delta for removing r exactly when the
\* move would vacate r without occupying nr, and the delta for inserting nr
\* exactly when it would occupy nr without vacating r; when both happen in
\* the same move it adds neither
CoupledDeltaAddedForOne ==
    CoupledEvaluated =>
        /\ RemovalAdded <=> (Vacates /\ ~Occupies)
        /\ InsertionAdded <=> (Occupies /\ ~Vacates)

\* a virtual move that vacates r and occupies nr has been evaluated
CoupledBothEvaluated == CoupledEvaluated /\ Vacates /\ Occupies

\* C18 as stated: merge_vertices(u, v) on an unweighted graph state fails
\* with a ValueException for every pair of vertices u, v
MergeUnweightedThrows ==
    (last.op = "merge_vertices" /\ ~is_weighted) => err = "ValueException"

\* C18, amended: merge_vertices(u, v) on an unweighted graph state fails
\* with a ValueException exactly when u # v; merge_vertices(u, u) returns
\* without an error
MergeUnweightedThrowsDistinct ==
    (last.op = "merge_vertices" /\ ~is_weighted) =>
        (err = "ValueException" <=> last.v # last.nr)

\* merge_vertices of two vertices of an unweighted graph has thrown
MergeRefused ==
    /\ last.op = "merge_vertices" /\ ~is_weighted
    /\ last.v # last.nr /\ err = "ValueException"

\* C19: every bulk operation taking a vertex array and a block array
\* (add_vertices, both overloads of move_vertices) fails with a
\* ValueException when the two arrays have different lengths, and moves or
\* adds no prefix of the longer one.
LengthMismatchRefused ==
    [][(/\ last'.op \in {"add_vertices", "move_vertices", "move_vertices_vec"}
        /\ last'.nv # last'.nb)
        => (err' = "ValueException" /\ UNCHANGED <<b, wr, mrs, mrp, mrm>>)]_vars

\* ------------------------------------------------- the sweep on its own
\* the block state stays as constructed while the sweep runs: the sweep
\* reaches it only through move_proposal, virtual_move_dS and perform_move
\* of the state it is handed
state_vars == <<directed, is_weighted, coupled, edges, vweight, b, wr, mrs,
                emat, mrp, mrm, empty_blocks, empty_pos, candidate_blocks,
                candidate_pos, bclabel, merge_map, cstate, fault, in_part, err,
                last, rt, deg_corr, pstats, ret, queries, rec_types, brec,
                ignore_degrees, brecsum, par>>

\* the densities a sweep starts with: flat, or rising with the bin
InputDens == {[k \in Bins |-> Frac(0, 1)], [k \in Bins |-> Frac(k, 1)]}

\* the states multicanonical_sweep is called on: _S from below _S_min up to
\* _S_max, _hist empty or filled by earlier sweeps, _f = 1
SweepInputs ==
    [pc : {"idle"},
     S_state : -1 .. (NumBins * BinWidth),
     S_min : {0}, S_max : {NumBins * BinWidth},
     niter : 0 .. MaxIter,
     hist : {[k \in Bins |-> 0], [k \in Bins |-> k + 1]},
     dens : InputDens,
     f : {Frac(1, 1)},
     time : {0, 1},
     refine : BOOLEAN,
     target_bin : Bins \cup {-1},
     node_weight : {[v \in V |-> 1], [v \in V |-> IF v = 0 THEN 0 ELSE 1]},
     S : {0}, i : {0}, iter : {0}, nmoves : {0},
     v : {-1}, dS : {<<0, 0>>}, nS : {0}, j : {0}, accept : {FALSE},
     ln_sample : {0},
     sampled : {0}, proposed : {0}, performed : {0}, dS_performed : {0}]

InitSweep ==
    /\ deg_corr = FALSE
    /\ InitState
    /\ ~directed /\ ~is_weighted /\ ~coupled
    /\ b = [v \in V |-> 0]
    /\ bclabel = [r \in Blocks |-> 0]
    /\ mc \in SweepInputs /\ par = NoLabelling
    /\ NoRecs

\* the pairs (dS.first, dS.second) virtual_move_dS returns
Proposals == {-3, -1, 0, 2} \X {-1, 0, 1}

\* the logarithms of the draws of a_sample
LogSamples == {-2, -1}

\* the call of multicanonical_sweep, up to the head of its loop
SweepEnter ==
    /\ mc.pc = "idle"
    /\ mc' = multicanonical_sweep_entry(mc)
    /\ UNCHANGED state_vars

\* one iteration of the loop
SweepIterate(v, dS, ln_sample) ==
    /\ mc.pc = "loop"
    /\ mc.iter < mc.niter
    /\ mc' = multicanonical_sweep_iteration(mc, v, dS, ln_sample)
    /\ UNCHANGED state_vars

\* return make_pair(S, nmoves), after the last iteration or the break
SweepReturn ==
    /\ \/ mc.pc = "loop" /\ mc.iter >= mc.niter
       \/ mc.pc = "break"
    /\ mc' = [mc EXCEPT !.pc = "returned"]
    /\ UNCHANGED state_vars

NextSweep ==
    \/ SweepEnter
    \/ \E v \in V, dS \in Proposals, ln_sample \in LogSamples :
           SweepIterate(v, dS, ln_sample)
    \/ SweepReturn

SpecSweep == InitSweep /\ [][NextSweep]_vars

\* the entry entropy of the sweep lies outside [_S_min, _S_max)
OutOfRange == mc.S_state < mc.S_min \/ mc.S_state >= mc.S_max

\* C20: multicanonical_sweep raises an error when the entry entropy S
\* satisfies S < S_min or S >= S_max, and does so before any vertex is
\* sampled, any move is proposed or committed, and before hist, dens, f or
\* time are modified: the call ends in the throw with all of them as they
\* were, and nothing of the sweep runs after it.
SweepRefusedAtEntry ==
    [][/\ mc.pc # "thrown"
       /\ (mc.pc = "idle" /\ OutOfRange) =>
              /\ mc'.pc = "thrown"
              /\ mc'.sampled = 0 /\ mc'.proposed = 0 /\ mc'.performed = 0
              /\ mc'.hist = mc.hist /\ mc'.dens = mc.dens
              /\ mc'.f = mc.f /\ mc'.time = mc.time]_vars

\* a sweep called with S = S_max and a positive iteration budget has thrown
SweepRefused ==
    /\ mc.pc = "thrown"
    /\ mc.S_state = mc.S_max
    /\ mc.niter > 0

\* the sweep is past its entry test
Sweeping(m) == m.pc \in {"loop", "break", "returned"}

\* S lies in [_S_min, _S_max) of m
InRange(m, S) == m.S_min <= S /\ S < m.S_max

\* the step is an iteration of the sweep that was not skipped
Proposed == mc.pc = "loop" /\ mc'.proposed = mc.proposed + 1

\* C21: throughout a multicanonical_sweep that starts inside the range the
\* running entropy S stays in [S_min, S_max) and the current bin i equals
\* get_bin(S); a proposal whose entropy S + dS lies outside the range is
\* not committed (no perform_move, S and i kept), whatever dens and the
\* acceptance bias are.
SweepStaysInRange ==
    [][/\ Sweeping(mc') =>
              InRange(mc', mc'.S) /\ mc'.i = get_bin(mc', mc'.S)
       /\ (Proposed /\ ~InRange(mc, mc.S + mc'.dS[1])) =>
              /\ mc'.performed = mc.performed /\ mc'.nmoves = mc.nmoves
              /\ mc'.S = mc.S /\ mc'.i = mc.i]_vars

\* a proposal that leaves the range was rejected although its acceptance
\* bias is positive and the density does not oppose it, after a move that
\* changed the bin was committed
OutsideRejected ==
    /\ Sweeping(mc) /\ mc.performed > 0 /\ mc.i # get_bin(mc, mc.S_state)
    /\ ~InRange(mc, mc.nS) /\ ~mc.accept
    /\ mc.dS[2] > 0

\* the total of the histogram of m
TotalHist(m) == SumFun(m.hist)

\* C22: within a multicanonical_sweep no histogram bin count ever
\* decreases; an iteration that is not skipped increments exactly one bin
\* of hist by exactly 1 and every other step leaves hist alone, so the
\* total of hist grows by the number of non-skipped iterations.
HistogramGrows ==
    [][/\ \A k \in Bins : mc'.hist[k] >= mc.hist[k]
       /\ Proposed =>
              \E k \in Bins :
                  mc'.hist = [mc.hist EXCEPT ![k] = mc.hist[k] + 1]
       /\ ~Proposed => mc'.hist = mc.hist
       /\ TotalHist(mc') - TotalHist(mc) = mc'.proposed - mc.proposed]_vars

\* a sweep with a skipped iteration and a committed move has counted a bin
\* other than the one it started in
HistogramCounted ==
    /\ Sweeping(mc) /\ mc.sampled > mc.proposed /\ mc.performed > 0
    /\ \E k \in Bins : k # get_bin(mc, mc.S_state) /\ mc.hist[k] > k + 1

\* C23: multicanonical_sweep runs at most niter loop iterations, and once
\* the current bin equals the configured target bin no further move is
\* proposed or committed in that sweep, also when the sweep starts in the
\* target bin.
SweepStopsAtTarget ==
    [][/\ mc'.sampled <= mc'.niter
       /\ (Sweeping(mc) /\ mc.i = mc.target_bin) =>
              mc'.proposed = mc.proposed /\ mc'.performed = mc.performed]_vars

\* ------------------------------------- proposals in the three-block scenario
\* move_vertex on the three-block states, and get_move_prob for the
\* probability of the move back
NextThreeMove ==
    \/ \E v \in Three, nr \in Three : MoveVertex(v, nr)
    \/ \E v \in Three, x \in Three, c \in CValues :
           GetMoveProb(v, x, c, TRUE)

\* the three vertices in one block of an unweighted state without a
\* coupled state
InitThreeMove ==
    /\ InitThree
    /\ ~is_weighted /\ ~coupled /\ ~deg_corr
    /\ b = [v \in Three |-> 0]

SpecThreeMove == InitThreeMove /\ [][NextThreeMove]_vars

\* the number a returned sum of "frac" terms stands for: each term
\* coefficient * numerator / (denominator * w)
RECURSIVE FracTotal(_, _)
FracTotal(sum, K) ==
    IF K = {} THEN Frac(0, 1)
    ELSE LET k == CHOOSE x \in K : TRUE
         IN  FracAdd(Frac(sum[k] * k.a[1], k.a[2] * k.a[3]),
                     FracTotal(sum, K \ {k}))

\* the probability get_move_prob(v, r, s, c, reverse) returns in the state S
move_prob(S, v, r, s, c, reverse) ==
    FracTotal(get_move_prob(S, v, r, s, c, reverse).ret.sum,
              DOMAIN get_move_prob(S, v, r, s, c, reverse).ret.sum)

\* C24: for a move of v from r to s, get_move_prob(v, s, r, c, reverse=true)
\* evaluated in the state before the move equals
\* get_move_prob(v, s, r, c, reverse=false) evaluated in the state after
\* move_vertex(v, r, s) has been committed, also when the move empties r or
\* occupies an empty s.
ReverseIsForwardAfterMove ==
    [][(last'.op = "move_vertex" /\ err' = "none" /\ last'.r # last'.nr) =>
           \A c \in CValues :
               move_prob(St, last'.v, last'.nr, last'.r, c, TRUE)
                   = move_prob(St', last'.v, last'.nr, last'.r, c, FALSE)]_vars

\* ------------------------------------------------ proposals of sample_block
\* the draws a call of sample_block consumes: k1, k2 for the uniform
\* block, ku for the neighbour, x for the choice between the two proposals,
\* ke for the edge
Draws ==
    [k1 : 0 .. NumB, k2 : 0 .. (NumB - 1), ku : 0 .. 1,
     x : {Frac(0, 1), Frac(1, 2)}, ke : 0 .. 2]

\* sample_block(v, c, rng)
SampleBlock(v, c, rng) ==
    /\ v \in in_part
    /\ Query(Eval(sample_block(St, v, c, rng)), "sample_block", v, b[v],
             null_group)

NextSample ==
    \/ NextMove
    \/ \E v \in V, c \in CValues \cup {c_infinity}, rng \in Draws :
           SampleBlock(v, c, rng)

\* move_vertex and sample_block
SpecSample == Init /\ [][NextSample]_vars

\* the vertex u is a neighbour of v
Neighbour(v, u) ==
    u # v /\ \E i \in 1 .. Len(edges) :
                 {edges[i].s, edges[i].t} = {u, v}

\* the edge e has an endpoint in the block t and s is the block of its
\* other endpoint
EndpointOf(e, t, s) ==
    \/ b[edges[e].s] = t /\ s = b[edges[e].t]
    \/ b[edges[e].t] = t /\ s = b[edges[e].s]

\* C25: sample_block(v, c, rng) with c = infinity returns the uniformly
\* drawn block and samples no neighbour and no edge; with c = 0 and a
\* vertex v that has a neighbour it returns the block of the other endpoint
\* of a sampled edge of the block of a neighbour of v, not the uniform draw.
SampleBlockDegenerates ==
    last.op = "sample_block" =>
        /\ ret.sample.c = c_infinity =>
               ~ret.sample.local /\ ret.sample.s = ret.sample.rand
        /\ (ret.sample.c = 0 /\ \E u \in V : Neighbour(last.v, u)) =>
               /\ ret.sample.local
               /\ \E u \in V :
                      /\ Neighbour(last.v, u)
                      /\ EndpointOf(ret.sample.e, b[u], ret.sample.s)

\* sample_block with c = 0 has returned the block of an edge endpoint that
\* differs from its uniform draw
LocalProposal ==
    /\ last.op = "sample_block" /\ ret.sample.c = 0
    /\ ret.sample.local /\ ret.sample.s # ret.sample.rand

\* the number of occupied blocks the coupled state has in its block c
OccupiedIn(c) == Cardinality({r \in Blocks : wr[r] > 0 /\ cstate.b[r] = c})

\* the step is a successful move_vertex of a vertex of positive weight that
\* vacates its block r and occupies the empty block nr
VacatesAndOccupies ==
    /\ last'.op = "move_vertex" /\ err' = "none" /\ last'.r # last'.nr
    /\ vweight[last'.v] > 0
    /\ wr[last'.r] = vweight[last'.v] /\ wr[last'.nr] = 0

\* the coupled state C after the block r was taken out of it and then the
\* block nr put into it, under the label of r
RemovedThenAdded(C, r, nr, lab) ==
    [add_partition_node(
         set_vertex_weight(
             set_vertex_weight(remove_partition_node(C, r, lab), r, 0), nr, 1),
         nr, lab)
     EXCEPT !.b[nr] = lab]

\* C26: with a coupled state attached and consistent at the start, after any
\* sequence of successful move_vertex calls the coupled state gives a block
\* r the weight 1 if wr[r] > 0 and 0 if wr[r] = 0, its wr[c] is the number
\* of occupied blocks it assigns to c, and a move that both vacates r and
\* occupies nr takes r out of the coupled state before it puts nr in.
CoupledTracksMoves ==
    [][coupled =>
        /\ \A r \in Blocks :
               cstate'.vweight[r] = (IF wr'[r] > 0 THEN 1 ELSE 0)
        /\ \A c \in Labels : cstate'.wr[c] = OccupiedIn(c)'
        /\ VacatesAndOccupies =>
               cstate' = RemovedThenAdded(cstate, last'.r, last'.nr,
                                          bclabel[last'.r])]_vars

\* a move has vacated its block and occupied an empty one in a state with a
\* coupled state, and the coupled state holds the new block
CoupledSwapped ==
    /\ coupled /\ last.op = "move_vertex" /\ err = "none"
    /\ vweight[last.v] > 0
    /\ wr[last.r] = 0 /\ wr[last.nr] = vweight[last.v]
    /\ cstate.vweight[last.nr] = 1 /\ cstate.vweight[last.r] = 0

\* ------------------------------------------- the zero-weight edge scenario
\* the weighted input graph with one more edge, a self-loop of weight 0 on
\* vertex 0
ZeroEdges == InputEdges(TRUE) \o << [s |-> 0, t |-> 0, w |-> 0] >>

InitZero ==
    /\ directed \in BOOLEAN
    /\ is_weighted = TRUE
    /\ coupled = FALSE
    /\ edges = ZeroEdges
    /\ vweight = InputVWeight(TRUE)
    /\ b \in InputPartitions
    /\ bclabel \in InputLabels
    /\ wr = node_counts(b, vweight, Blocks)
    /\ mrs = edge_counts(edges, b, Blocks)
    /\ emat = {p \in Blocks \X Blocks : mrs[p] # 0}
    /\ mrp = InitDegs(mrs, Blocks).mrp
    /\ mrm = InitDegs(mrs, Blocks).mrm
    /\ LET P == BlockState_init(wr, Blocks)
       IN  /\ empty_blocks = P.empty_blocks
           /\ empty_pos = P.empty_pos
           /\ candidate_blocks = P.candidate_blocks
           /\ candidate_pos = P.candidate_pos
    /\ merge_map = [v \in V |-> v]
    /\ cstate = InitCoupled(wr, bclabel)
    /\ fault = FALSE
    /\ in_part = V
    /\ err = "none"
    /\ last = NoCall
    /\ rt = NoRt
    /\ deg_corr = FALSE
    /\ pstats = FALSE
    /\ ret = NoRet
    /\ queries = 0
    /\ mc = NoSweep /\ par = NoLabelling
    /\ NoRecs

\* single-vertex and bulk add / remove / move on the graph with the
\* zero-weight self-loop
SpecZero == InitZero /\ [][NextBulk]_vars

\* C27: after every mutation (add_vertex, remove_vertex, move_vertex,
\* add_vertices, remove_vertices) the Block Edge Index holds an entry for the
\* block pair (r, s) if and only if mrs[r,s] > 0, so that no entry of weight
\* zero is left stored.
IndexHoldsPositivePairs ==
    \A p \in Blocks \X Blocks : p \in emat <=> mrs[p] > 0

\* ------------------------------------------------ removal out of protocol
\* remove_vertex(v) of a vertex of the partition while a neighbour of v is
\* out of the partition; explored until the first assert fails
RemoveVertexAlone(v) ==
    /\ ~fault
    /\ v \in in_part
    /\ ~Settled({v})
    /\ Commit(Eval(remove_vertex(St, v, b[v], {})))
    /\ last' = Call("remove_vertex", v, b[v], null_group)
    /\ in_part' = in_part \ {v}
    /\ rt' = NoRt

\* the state after construction, without a coupled state
InitAsserted == Init /\ ~coupled

NextAsserted ==
    \/ NextVertex
    \/ \E vs \in Batches(V) : RemoveVertices(vs)
    \/ \E a \in BulkArgs : AddVertices(a[1], a[2])
    \/ \E v \in V : RemoveVertexAlone(v)

\* the mutations, with remove_vertex also called on a vertex whose
\* neighbour is out of the partition
SpecAsserted == InitAsserted /\ [][NextAsserted]_vars

\* no assert has failed and no count is negative
CountsNonNegative ==
    /\ ~fault
    /\ \A p \in Blocks \X Blocks : mrs[p] >= 0
    /\ \A r \in Blocks : mrp[r] >= 0 /\ mrm[r] >= 0

\* the step is a remove_vertex of a vertex with a neighbour out of the
\* partition
CalledAlone == last'.op = "remove_vertex" /\ ~Settled({last'.v})

RecTypes == { <<"REAL_EXPONENTIAL">>, <<"DELTA_T">> }

\* _brec as the caller builds it: for every block pair with an entry, the
\* sum of each covariate over the edges between the two blocks
rec_counts(E, bb, R, em, types) ==
    [p \in R \X R |->
        IF p \in em
        THEN [i \in 1 .. Len(types) |-> edge_counts(rec_edges(E, i), bb, R)[p]]
        ELSE <<>>]

InitRec ==
    /\ deg_corr = FALSE
    /\ InitState
    /\ ~coupled
    /\ mc = NoSweep /\ par = NoLabelling
    /\ rec_types \in RecTypes
    /\ brec = rec_counts(edges, b, Blocks, emat, rec_types)
    /\ ignore_degrees = [v \in V |-> 0]
    /\ brecsum = [r \in Blocks |-> 0]

\* remove_vertices(vs) followed by add_vertices(vs, rs), rs the blocks the
\* vertices were in
RemoveAddVertices(vs) ==
    /\ Range(vs) \subseteq in_part
    /\ Settled(Range(vs))
    /\ Commit(Eval(add_vertices(Eval(remove_vertices(St, vs)), vs,
                                [i \in 1 .. Len(vs) |-> b[vs[i]]])))
    /\ last' = BulkCall("remove_add_vertices", vs, vs)
    /\ UNCHANGED in_part
    /\ rt' = NoRt

NextRec ==
    \/ NextMove
    \/ \E vs \in Batches(V) : RemoveAddVertices(vs)

\* moves and bulk round trips on a graph with a covariate
SpecRec == InitRec /\ [][NextRec]_vars

\* the step is a remove_vertices(vs) followed by add_vertices(vs, rs) with
\* the original blocks
PutBack == last'.op = "remove_add_vertices"

\* the count of the block pair p, 0 without an entry
StoredCount(p) == IF p \in emat THEN mrs[p] ELSE 0

\* the covariate sums of the block pair p, none without an entry
StoredRec(p) == IF p \in emat THEN brec[p] ELSE <<>>

\* C29: remove_vertices(vs) followed by add_vertices(vs, original blocks)
\* restores mrs, mrp, mrm, wr and brec, for every configured covariate type:
\* the weight and the covariates of an edge inside the batch, and of an edge
\* with one endpoint in it, are taken out once and put back once.
BatchRoundTripRestores ==
    [][PutBack =>
        /\ wr' = wr /\ mrp' = mrp /\ mrm' = mrm /\ emat' = emat
        /\ \A p \in Blocks \X Blocks :
               StoredCount(p)' = StoredCount(p) /\ StoredRec(p)' = StoredRec(p)]_vars

\* ----------------------------------------------- merges of three vertices
\* a weighted graph on three vertices, without a coupled state
InitThreeMerge == InitThree /\ is_weighted /\ ~coupled /\ ~deg_corr

NextThreeMerge == \E u \in Three, v \in Three : MergeVertices(u, v)

\* merges among the three vertices
SpecThreeMerge == InitThreeMerge /\ [][NextThreeMerge]_vars

\* the total weight of the edges of E between x and y, in either direction
\* (the self-loops of x for y = x)
Total(E, x, y) ==
    SumSeq([i \in 1 .. Len(E) |->
               IF {E[i].s, E[i].t} = {x, y} THEN E[i].w ELSE 0])

\* the step is a merge_vertices(u, v) of two different vertices that
\* returned
Merged == last'.op = "merge_vertices" /\ err' = "none" /\ last'.v # last'.nr

\* C30: after a successful merge_vertices(u, v) with u # v on a weighted
\* graph, vweight[u] is 0, vweight[v] is the sum of the two previous
\* weights, merge_map[u] is v, u has no incident edge, for every other
\* vertex t the total weight between v and t is the previous total between
\* v and t plus the previous total between u and t, and the self-loops of v
\* have taken up the self-loops of u (each counted once) and the edges
\* between u and v.
MergeUnitesEdges ==
    [][(Merged /\ is_weighted) =>
        /\ vweight'[last'.v] = 0
        /\ vweight'[last'.nr] = vweight[last'.v] + vweight[last'.nr]
        /\ merge_map'[last'.v] = last'.nr
        /\ \A i \in 1 .. Len(edges') :
               edges'[i].s # last'.v /\ edges'[i].t # last'.v
        /\ \A t \in DOMAIN vweight \ {last'.v, last'.nr} :
               Total(edges', last'.nr, t)
                   = Total(edges, last'.nr, t) + Total(edges, last'.v, t)
        /\ Total(edges', last'.nr, last'.nr)
               = Total(edges, last'.nr, last'.nr)
                 + Total(edges, last'.v, last'.nr)
                 + Total(edges, last'.v, last'.v)]_vars

\* a merge has given v the edges u had to a third vertex, on top of its own
MergedToThird ==
    /\ last.op = "merge_vertices" /\ err = "none" /\ last.v # last.nr
    /\ is_weighted /\ vweight[last.nr] > 0
    /\ \E t \in Three \ {last.v, last.nr} :
           /\ Total(ThreeEdges(TRUE), last.v, t) > 0
           /\ Total(ThreeEdges(TRUE), last.nr, t) > 0
           /\ Total(edges, last.nr, t)
                  = Total(ThreeEdges(TRUE), last.nr, t)
                    + Total(ThreeEdges(TRUE), last.v, t)

\* the bin that is current after the accept / reject decision of the step
CurrentBin == IF mc'.accept THEN mc'.j ELSE mc.i

\* C31: in every iteration of multicanonical_sweep that is not skipped,
\* accepted or rejected, exactly the bin that is current after the decision
\* (the new bin j on acceptance, the old bin i on rejection) has hist
\* incremented by 1 and dens incremented by the value f has at that moment;
\* no other bin of hist or dens changes.
CurrentBinCounted ==
    [][Proposed =>
        /\ mc'.i = CurrentBin
        /\ mc'.hist = [mc.hist EXCEPT ![CurrentBin] = mc.hist[CurrentBin] + 1]
        /\ mc'.dens = [mc.dens EXCEPT
                          ![CurrentBin] = FracAdd(mc.dens[CurrentBin], mc.f)]]_vars

\* a refining sweep has, after an earlier iteration, accepted a move into
\* another bin and counted it
NewBinCounted ==
    /\ Sweeping(mc) /\ mc.refine /\ mc.time > 0 /\ mc.proposed >= 2
    /\ mc.accept /\ mc.i = mc.j /\ mc.j # get_bin(mc, mc.S - mc.dS[1])
    /\ mc.hist[mc.j] > 0

\* the step is an iteration of the sweep whose sampled vertex has weight zero
Skipped ==
    /\ mc.pc = "loop" /\ mc'.sampled = mc.sampled + 1
    /\ mc.node_weight[mc'.v] = 0

\* C32: an iteration of multicanonical_sweep whose sampled vertex has weight
\* zero changes nothing (no proposal, no commit, no change to S, hist, dens,
\* f or time, nor to the block state) but still consumes one unit of the
\* niter iteration budget.
SkippedOnlySpendsBudget ==
    [][Skipped =>
        /\ mc'.proposed = mc.proposed /\ mc'.performed = mc.performed
        /\ mc'.nmoves = mc.nmoves /\ mc'.S = mc.S /\ mc'.i = mc.i
        /\ mc'.hist = mc.hist /\ mc'.dens = mc.dens
        /\ mc'.f = mc.f /\ mc'.time = mc.time
        /\ state_vars' = state_vars
        /\ mc'.pc = "loop" /\ mc'.iter = mc.iter + 1]_vars

\* the sweep returned with its whole budget spent on skipped iterations
BudgetSpentOnSkips ==
    /\ mc.pc = "returned" /\ mc.niter > 0 /\ mc.iter = mc.niter
    /\ mc.sampled = mc.niter /\ mc.proposed = 0
    /\ TotalHist(mc) = 0 /\ mc.nmoves = 0

\* a = (dens[i] - dens[j]) + dS.second of the proposal the step makes
AcceptanceLog ==
    FracAdd(FracSub(mc.dens[mc.i], mc.dens[mc'.j]), Frac(mc'.dS[2], 1))

\* sample < exp(a) for the draw of the step, compared through logarithms
SampleBelowExp == mc'.ln_sample * AcceptanceLog.d < AcceptanceLog.n

\* C33: in multicanonical_sweep an in-range proposal with
\* dens[i] - dens[j] + dS_bias > 0 is always accepted, whatever the random
\* draw; an in-range proposal with that quantity <= 0 is accepted exactly
\* when the uniform sample is below exp of it; in both cases acceptance
\* commits the move, adds dS to S and sets the current bin to j.
AcceptedByDensity ==
    [][(Proposed /\ InRange(mc, mc'.nS)) =>
        /\ mc'.nS = mc.S + mc'.dS[1] /\ mc'.j = get_bin(mc, mc'.nS)
        /\ AcceptanceLog.n > 0 => mc'.accept
        /\ AcceptanceLog.n <= 0 =>
               /\ mc'.ln_sample \in LogSamples
               /\ mc'.accept <=> SampleBelowExp
        /\ mc'.accept =>
               /\ mc'.performed = mc.performed + 1
               /\ mc'.nmoves = mc.nmoves + 1
               /\ mc'.S = mc.S + mc'.dS[1]
               /\ mc'.i = mc'.j]_vars

\* after a committed move, an in-range proposal was rejected by its draw
RejectedByDraw ==
    /\ Sweeping(mc) /\ mc.performed > 0
    /\ InRange(mc, mc.nS) /\ mc.ln_sample \in LogSamples /\ ~mc.accept

\* the step is an iteration of the sweep that was skipped or whose proposal
\* was rejected
NotCommitted == Skipped \/ (Proposed /\ ~mc'.accept)

\* C34: multicanonical_sweep returns (S, nmoves) where nmoves equals the
\* number of perform_move calls made during the sweep and S equals the entry
\* entropy plus the sum of the entropy deltas of exactly the accepted moves;
\* rejected and skipped iterations contribute nothing to either.
ReturnsMovesAndEntropy ==
    [][/\ mc'.pc = "returned" =>
              /\ mc'.nmoves = mc'.performed
              /\ mc'.S = mc'.S_state + mc'.dS_performed
       /\ NotCommitted =>
              /\ mc'.S = mc.S /\ mc'.nmoves = mc.nmoves
              /\ mc'.performed = mc.performed
              /\ mc'.dS_performed = mc.dS_performed]_vars

\* a sweep returned after a committed iteration and one that was not, with
\* an entropy other than the one it entered with
ReturnedAfterMoves ==
    /\ mc.pc = "returned" /\ mc.nmoves > 0 /\ mc.S # mc.S_state
    /\ mc.sampled > mc.performed

\* the blocks held by the pool q
PoolOf(q) == {q[k] : k \in 1 .. Len(q)} \ {null_group}

\* C35: sample_block never returns the null_group sentinel: whenever at
\* least one block exists, the returned value is a real block id, which is
\* either an occupied block or (only when empty_blocks is non-empty) an
\* empty block.
SampleBlockReturnsBlock ==
    (last.op = "sample_block" /\ Blocks # {}) =>
        /\ ret.sample.s # null_group
        /\ ret.sample.rand # null_group
        /\ ret.sample.s \in Blocks
        /\ \/ wr[ret.sample.s] > 0
           \/ /\ wr[ret.sample.s] = 0
              /\ empty_blocks # <<>>
              /\ ret.sample.s \in PoolOf(empty_blocks)
        /\ ~ret.sample.local =>
               ret.sample.s \in PoolOf(candidate_blocks) \cup PoolOf(empty_blocks)

\* the uniform draw of sample_block hit the sentinel and an empty block was
\* returned in its place
EmptyBlockForSentinel ==
    /\ last.op = "sample_block" /\ ~ret.sample.local
    /\ wr[ret.sample.s] = 0 /\ PoolOf(candidate_blocks) # {}
    /\ ret.sample.s \in PoolOf(empty_blocks)

\* ------------------------------------------------- waiting times (DELTA_T)
\* _ignore_degrees as the caller sets it: nowhere, on the first vertex
\* only, everywhere
IgnoreDegrees ==
    { [v \in V |-> 0], [v \in V |-> IF v = 0 THEN 1 ELSE 0], [v \in V |-> 2] }

\* the waiting times of the vertices of X that are in the block r and have
\* _ignore_degrees > 0, summed
waiting_sum(E, bb, ign, X, r) ==
    LET n == Cardinality(DOMAIN bb)
    IN  SumIdx([v \in 0 .. (n - 1) |->
                   IF v \in X /\ bb[v] = r /\ ign[v] > 0
                   THEN waiting_time(E, v) ELSE 0], 0, n - 1)

\* a state with edge covariates, _brecsum as the caller computes it
InitWait ==
    /\ deg_corr = FALSE
    /\ InitState
    /\ ~coupled
    /\ mc = NoSweep /\ par = NoLabelling
    /\ rec_types \in RecTypes
    /\ brec = rec_counts(edges, b, Blocks, emat, rec_types)
    /\ ignore_degrees \in IgnoreDegrees
    /\ brecsum = [r \in Blocks |->
                     IF rec_types[1] = "DELTA_T"
                     THEN waiting_sum(edges, b, ignore_degrees, V, r) ELSE 0]

\* move_vertex, add_vertex and remove_vertex on a state with covariates
SpecWait == InitWait /\ [][NextVertex]_vars

\* the first covariate channel is DELTA_T
WaitingTimes == rec_types # <<>> /\ rec_types[1] = "DELTA_T"

\* what the step adds to _brecsum[r]
BrecsumStep(r) == brecsum'[r] - brecsum[r]

\* the step is add_vertex(v, r) (sign 1) or remove_vertex(v, r) (sign -1)
\* and changes _brecsum as the waiting-time block prescribes
BrecsumFollows(v, r, sign) ==
    \A s \in Blocks :
        BrecsumStep(s) = IF s = r /\ ignore_degrees[v] > 0
                         THEN sign * waiting_time(edges, v) ELSE 0

\* C36: when the first covariate channel is DELTA_T, add_vertex(v, r) and
\* remove_vertex(v, r) change brecsum[r] by plus / minus the out-degree
\* waiting time of v exactly when ignore_degrees[v] > 0 and leave brecsum of
\* every block unchanged otherwise, so that after any sequence of
\* move_vertex calls brecsum[r] is the sum of that quantity over the
\* vertices v with b[v] = r and ignore_degrees[v] > 0.
BrecsumTracksBlocks ==
    [][WaitingTimes =>
        /\ last'.op = "add_vertex" =>
               BrecsumFollows(last'.v, last'.nr, 1)
        /\ last'.op = "remove_vertex" =>
               BrecsumFollows(last'.v, last'.r, -1)
        /\ \A r \in Blocks :
               brecsum'[r] = waiting_sum(edges', b', ignore_degrees, in_part', r)]_vars

\* a vertex with _ignore_degrees > 0 and a positive waiting time was moved
\* between two blocks, next to a vertex whose degrees are not ignored
WaitingTimeMoved ==
    /\ WaitingTimes /\ last.op = "move_vertex" /\ err = "none"
    /\ last.r # last.nr /\ ignore_degrees[last.v] > 0
    /\ waiting_time(edges, last.v) > 0
    /\ brecsum[last.nr] > 0
    /\ \E u \in V : ignore_degrees[u] = 0

\* ------------------------------ virtual_move_sparse<exact>(v, r, nr), stepwise
\* every variable but ret
call_vars == <<directed, is_weighted, coupled, edges, vweight, b, wr, mrs,
               emat, mrp, mrm, empty_blocks, empty_pos, candidate_blocks,
               candidate_pos, bclabel, merge_map, cstate, fault, in_part, err,
               last, rt, deg_corr, pstats, queries, mc, rec_types, brec,
               ignore_degrees, brecsum, par>>

\* the values a return register may hold
Registers == { <<>>, Term(1, "indeterminate", <<>>) }

\* no call is being executed and the process has not died
Idle == ret.call \notin {"running", "overflow"}

\* move_vertex between two calls
MoveWhenIdle(v, nr) == Idle /\ MoveVertex(v, nr)

\* virtual_move_sparse<exact>(v, r, nr) is called with r = b[v]
VirtualMoveSparse(v, nr, exact, build) ==
    /\ Idle
    /\ v \in in_part
    /\ Query(Eval(virtual_move_sparse_call(St, exact, build)),
             "virtual_move_sparse", v, b[v], nr)

\* the statement of the running overload is executed as calls
SparseSelf ==
    /\ ret.call = "running" /\ ret.build = "frames"
    /\ ret' = virtual_move_sparse_self(ret)
    /\ UNCHANGED call_vars

\* ... as a jump
SparseJump ==
    /\ ret.call = "running" /\ ret.build = "jump"
    /\ ret' = virtual_move_sparse_jump(ret)
    /\ UNCHANGED call_vars

\* ... as a return of whatever the register holds
SparseAssumed(x) ==
    /\ ret.call = "running" /\ ret.build = "assumed"
    /\ ret' = virtual_move_sparse_assumed(ret, x)
    /\ UNCHANGED call_vars

SparseStep == SparseSelf \/ SparseJump \/ \E x \in Registers : SparseAssumed(x)

NextSparse ==
    \/ \E v \in V, nr \in Blocks : MoveWhenIdle(v, nr)
    \/ \E v \in V, nr \in Targets, exact \in BOOLEAN, build \in Builds :
           VirtualMoveSparse(v, nr, exact, build)
    \/ SparseSelf
    \/ SparseJump
    \/ \E x \in Registers : SparseAssumed(x)

\* moves and calls of the three-argument virtual_move_sparse; a call that
\* is running keeps being executed
SpecSparse == InitQuery /\ [][NextSparse]_vars /\ WF_vars(SparseStep)

\* virtual_move_sparse<exact>(v, r, nr, m_entries) of the call that is
\* running, with the entries of the move in m_entries
FourArgumentValue ==
    TermSum(virtual_move_sparse(St, last.v, last.r, last.nr, ret.ea.exact,
                get_move_entries(St, last.v, last.r, last.nr, {})))

\* C37: the three-argument virtual_move_sparse(v, r, nr) terminates and
\* returns the same value as the four-argument
\* virtual_move_sparse(v, r, nr, m_entries) evaluated with the state's own
\* Move-Entries set.
SparseOverloadReturns ==
    [](ret.call = "running" =>
           <>(ret.call = "returned" /\ ret.sum = FourArgumentValue))

\* ------------------------------------------- the labelling loops in parallel
\* a call of one of the two functions on the graph 0 - 1 - 2 of the
\* three-block scenario, the labels all 0 before it
LabelInputs ==
    [pc : {"idle"},
     fn : {"label_parallel_edges", "label_self_loops"},
     mark_only : BOOLEAN,
     label : {[e \in 1 .. Len(ThreeEdges(FALSE)) |-> 0]},
     pos : {[v \in Three |-> 0]},
     vset : {[v \in Three |-> [u \in Three |-> 0]]},
     self_loops : {[v \in Three |-> {}]},
     n : {[v \in Three |-> 1]},
     writers : {[e \in 1 .. Len(ThreeEdges(FALSE)) |-> {}]}]

InitLabel ==
    /\ directed \in BOOLEAN
    /\ is_weighted = FALSE
    /\ coupled = FALSE
    /\ deg_corr = FALSE
    /\ edges = ThreeEdges(FALSE)
    /\ vweight = [v \in Three |-> 1]
    /\ b = [v \in Three |-> 0]
    /\ bclabel = [r \in Three |-> 0]
    /\ wr = node_counts(b, vweight, Three)
    /\ mrs = edge_counts(edges, b, Three)
    /\ emat = {p \in Three \X Three : mrs[p] # 0}
    /\ mrp = InitDegs(mrs, Three).mrp
    /\ mrm = InitDegs(mrs, Three).mrm
    /\ LET P == BlockState_init(wr, Three)
       IN  /\ empty_blocks = P.empty_blocks
           /\ empty_pos = P.empty_pos
           /\ candidate_blocks = P.candidate_blocks
           /\ candidate_pos = P.candidate_pos
    /\ merge_map = [v \in Three |-> v]
    /\ cstate = InitCoupled(wr, bclabel)
    /\ fault = FALSE
    /\ in_part = Three
    /\ err = "none"
    /\ last = NoCall
    /\ rt = NoRt
    /\ pstats = FALSE
    /\ ret = NoRet
    /\ queries = 0
    /\ mc = NoSweep
    /\ NoRecs
    /\ par \in LabelInputs

\* every variable but par
label_vars == <<directed, is_weighted, coupled, edges, vweight, b, wr, mrs,
                emat, mrp, mrm, empty_blocks, empty_pos, candidate_blocks,
                candidate_pos, bclabel, merge_map, cstate, fault, in_part, err,
                last, rt, deg_corr, pstats, ret, queries, mc, rec_types, brec,
                ignore_degrees, brecsum>>

\* the call: the parallel loop starts
LabelCall ==
    /\ par.pc = "idle"
    /\ par' = [par EXCEPT !.pc = "loop"]
    /\ UNCHANGED label_vars

\* a thread runs one iteration of the body of the vertex v
LabelBody(v) ==
    /\ par.pc = "loop"
    /\ ~body_done(par, edges, v)
    /\ par' = label_body(par, edges, v)
    /\ UNCHANGED label_vars

\* the loop ends when every body has ended
LabelReturn ==
    /\ par.pc = "loop"
    /\ \A v \in Three : body_done(par, edges, v)
    /\ par' = [par EXCEPT !.pc = "done"]
    /\ UNCHANGED label_vars

NextLabel ==
    \/ LabelCall
    \/ \E v \in Three : LabelBody(v)
    \/ LabelReturn

\* the two labelling functions, the bodies of their vertices interleaved
SpecLabel == InitLabel /\ [][NextLabel]_vars

\* the labels the loop leaves when one thread runs all the bodies
SerialLabels ==
    serial_loop([par EXCEPT !.label = [e \in DOMAIN par.label |-> 0],
                            !.pos = [v \in Three |-> 0],
                            !.n = [v \in Three |-> 1]], edges, 0).label

\* C38: in the parallel per-vertex loops of label_parallel_edges and
\* label_self_loops, for directed and undirected graphs alike, no edge's
\* label is written by the loop bodies of two different vertices, so the
\* final labelling is the same under every interleaving of the per-vertex
\* bodies across threads.
LabelsWrittenByOneBody ==
    par.pc \in {"loop", "done"} =>
        /\ \A e \in DOMAIN par.writers : Cardinality(par.writers[e]) <= 1
        /\ par.pc = "done" => par.label = SerialLabels

\* the part of C38 that holds apart from label_self_loops on an undirected
\* graph: one writer per edge
OneWriterButUndirectedSelfLoops ==
    (par.pc \in {"loop", "done"}
        /\ ~(par.fn = "label_self_loops" /\ ~directed)) =>
        \A e \in DOMAIN par.writers : Cardinality(par.writers[e]) <= 1

\* the final labelling is that of the serial loop
LabelsAsSerial == par.pc = "done" => par.label = SerialLabels
====
